---- MODULE Spec2Model ----
(***************************************************************************)
(* PolyPaste: translation-and-layout-QA pipeline.                          *)
(*                                                                         *)
(* Two event loops exchange messages over two FIFO channels:               *)
(*   - the UI iframe (src/src/code.ts, part "ui.ts"): user clicks, the     *)
(*     translation queue, the in-flight translateBatch calls;              *)
(*   - the controller (src/src/code.ts, part "code.ts"): figma.ui.onmessage*)
(*     with its async handlers, which suspend at every await.              *)
(* One step of the model is one macrotask of one of the two loops: the     *)
(* synchronous code of a handler up to its next await on a real            *)
(* asynchronous operation, together with the microtasks it triggers.       *)
(*                                                                         *)
(* Specifications:                                                         *)
(*   Spec     the pipeline: Generate, Cancel, the translation queue, the   *)
(*            controller's handlers and the messages between the two      *)
(*   SpecTB   one call of translateBatch (src/src/translate.ts)            *)
(*   SpecRW   rewrite-shorter for one language after its generation        *)
(*   SpecDoc  the Figma document: clone, label, mirror, apply, QA          *)
(*            (src/src/types.ts, src/src/qa.ts)                            *)
(*   SpecTBFair  SpecTB with fairness of the network and the timers       *)
(*   SpecPl   the placement of the clones (duplicateAndPlace)              *)
(*   SpecQA   layout QA with lengths: applyTranslations, runQA             *)
(***************************************************************************)
EXTENDS Integers, Sequences, FiniteSets, Bags, TLC

\* ------------------------------------------------------------------ bounds
NumLangs == 2            \* languages the user can select: 1..NumLangs
MaxRuns  == 2            \* clicks on Generate (each creates an AbortController)

\* -------------------------------------------------------- program constants
MaxConcurrent     == 2   \* processQueue: activeTranslations < 2
DefaultMaxRetries == 2   \* processTranslation passes maxRetries = 2
BackoffUnitMs     == 2000 \* translateBatch: delay(2000 * (attempt + 1))

Langs == 1..NumLangs
Runs  == 1..MaxRuns

\* The user's selection: the first n languages of the list, in list order
\* (startGeneration iterates selectedLangCodes in insertion order).
LangChoices == { [i \in 1..n |-> i] : n \in 1..NumLangs }

SeqToSet(s) == { s[i] : i \in 1..Len(s) }

\* LangStatus (types.ts); "none" = the language has no entry in the map.
MainOrder == <<"pending", "duplicating", "translating", "applying", "qa", "done">>
LangStatus == SeqToSet(MainOrder) \cup {"error", "cancelled"}

\* ------------------------------------------------------------ translateBatch
\* What one call of callOpenAI can bring back to translateBatch:
\*   "ok"        ok:true, data an object in which at least one requested id
\*               maps to a string
\*   "401"       ok:false, status 401
\*   "429"       ok:false, status 429
\*   "http"      ok:false, another HTTP status
\*   "network"   ok:false, no status: fetch threw (network error, abort)
\*   "empty"     ok:false, no status: no message content
\*   "badjson"   ok:false, no status: JSON.parse threw SyntaxError
\*   "notobject" ok:true, data that is no object
\*   "novalid"   ok:true, data an object with no requested id mapping to a string
AllResponses == {"ok", "401", "429", "http", "network", "empty", "badjson",
                 "notobject", "novalid"}

\* The responses the pipeline model draws from: one of each way
\* translateBatch reacts (return, hard fail, back-off, immediate retry).
Responses == {"ok", "401", "429", "novalid"}

\* The error text translateBatch keeps in lastError after a failed attempt.
ErrorOf(resp) ==
    CASE resp = "401"       -> "Invalid API key (401)."
      [] resp = "429"       -> "Rate limited (429). Wait and retry."
      [] resp = "http"      -> "OpenAI 500: "
      [] resp = "network"   -> "Network error."
      [] resp = "empty"     -> "Empty response from OpenAI."
      [] resp = "badjson"   -> "Failed to parse JSON from OpenAI response."
      [] resp = "notobject" -> "Invalid response format from OpenAI."
      [] resp = "novalid"   -> "No valid translations in response."
      [] OTHER              -> ""

\* The body of the retry loop after callOpenAI returned resp in iteration
\* `attempt`.  Result: what translateBatch does next.
\*   kind "return": the call returns (ok = translations, else error)
\*   kind "delay" : await delay(ms), then the loop continues
\*   kind "next"  : `continue` without waiting
\* Faulty variant: a 401 is retried like any other failure
TBAfterResponseRetry401(attempt, resp) ==
    CASE resp = "ok"  -> [kind |-> "return", ok |-> TRUE,  error |-> "", ms |-> 0]
      [] resp = "429" -> [kind |-> "delay",  ok |-> FALSE, error |-> ErrorOf(resp),
                          ms |-> BackoffUnitMs * (attempt + 1)]
      [] OTHER        -> [kind |-> "next",   ok |-> FALSE, error |-> ErrorOf(resp), ms |-> 0]

TBAfterResponse(attempt, resp) ==
    CASE resp = "ok"  -> [kind |-> "return", ok |-> TRUE,  error |-> "", ms |-> 0]
      [] resp = "401" -> [kind |-> "return", ok |-> FALSE, error |-> ErrorOf(resp), ms |-> 0]
      [] resp = "429" -> [kind |-> "delay",  ok |-> FALSE, error |-> ErrorOf(resp),
                          ms |-> BackoffUnitMs * (attempt + 1)]
      [] OTHER        -> [kind |-> "next",   ok |-> FALSE, error |-> ErrorOf(resp), ms |-> 0]

\* The head of the loop for iteration `attempt` (attempt <= maxRetries, then
\* the signal check).  Result: "call" = callOpenAI is started, or the return.
\* Faulty variant: the signal is looked at in the first iteration only
TBLoopHeadCheckOnce(attempt, maxRetries, sigAborted, lastError) ==
    IF attempt > maxRetries
    THEN [kind |-> "return", ok |-> FALSE, error |-> lastError]
    ELSE IF sigAborted /\ attempt = 0
         THEN [kind |-> "return", ok |-> FALSE, error |-> "Cancelled."]
         ELSE [kind |-> "call", ok |-> FALSE, error |-> lastError]

\* Faulty variant: the loop runs one iteration too many
TBLoopHeadOneMore(attempt, maxRetries, sigAborted, lastError) ==
    IF attempt > maxRetries + 1
    THEN [kind |-> "return", ok |-> FALSE, error |-> lastError]
    ELSE IF sigAborted
         THEN [kind |-> "return", ok |-> FALSE, error |-> "Cancelled."]
         ELSE [kind |-> "call", ok |-> FALSE, error |-> lastError]

TBLoopHead(attempt, maxRetries, sigAborted, lastError) ==
    IF attempt > maxRetries
    THEN [kind |-> "return", ok |-> FALSE, error |-> lastError]
    ELSE IF sigAborted
         THEN [kind |-> "return", ok |-> FALSE, error |-> "Cancelled."]
         ELSE [kind |-> "call", ok |-> FALSE, error |-> lastError]


\* ------------------------------------------------------------------- state
VARIABLES
    \* UI iframe (ui.ts part of code.ts)
    generating,          \* let generating
    abortController,     \* let abortController: 0 = null, r = the r-th one created
    aborted,             \* aborted[r]: signal.aborted of the r-th AbortController
    langProgressMap,     \* status per language, "none" = no entry
    translationsStore,   \* languages that have a stored TranslationSet
    translationQueue,    \* pending request-translation requests (FIFO)
    activeTranslations,  \* let activeTranslations
    tasks,               \* bag of processTranslation calls awaiting translateBatch
    \* controller (code.ts part)
    cancelled,           \* let cancelled
    cloneMap,            \* cloneMap[l]: 0 = no entry, r = clone made by run r
    languageMap,         \* languages stored by languageMap.set
    qaReports,           \* const qaReports (sequence)
    pendingCount,        \* let pendingCount
    settings,            \* let settings (the field showLabels)
    conts,               \* bag of handler invocations suspended at an await
    \* postMessage channels (FIFO)
    u2c,                 \* UI -> controller
    c2u,                 \* controller -> UI
    \* what the controller has sent since the last start-generate began
    runLanguages,        \* msg.languages of that start-generate
    progressSent,        \* last status sent per language, "none" = nothing yet
    \* one call of translateBatch on its own
    tb,                  \* its locals, its signal, and what it has done so far
    \* rewrite-shorter for one language after its generation is done
    rw,                  \* the UI's and the controller's state for that language
    \* the Figma document under one run of the controller
    doc,                 \* the node tree, originalEntries, the clone records
    \* the placement of successive clones beside one original
    pl,                  \* the original's geometry, the settings, the positions given
    \* layout QA of one language's clone, lengths in tenths of a pixel
    qa,                  \* the baseline, the mapped handles, the reports made
    \* the controller's baseline under selection changes and rescans
    sc,                  \* selection, originalEntries, scanResult, the runs' uses
    \* the rewrite-shorter buttons beside the pipeline
    ur,                  \* the entries' qaReports, rewritingLangs, shorten calls in flight
    \* the translation queue of the UI under more requests than the cap
    fq                   \* the queue, the calls in flight, the order of enqueues and starts

uiVars   == <<generating, abortController, aborted, langProgressMap,
              translationsStore, translationQueue, activeTranslations, tasks>>
ctlVars  == <<cancelled, cloneMap, languageMap, qaReports, pendingCount,
              settings, conts, runLanguages, progressSent>>
unitVars == <<tb, rw, doc, pl, qa, sc, ur, fq>>
vars     == <<uiVars, ctlVars, u2c, c2u, unitVars>>

\* ---------------------------------------------------------------- messages
\* One record shape for every message; unused fields keep their defaults.
Msg(type) ==
    [type |-> type, lang |-> 0, status |-> "", detail |-> "", langs |-> <<>>,
     run |-> 0, labels |-> FALSE, reports |-> <<>>, late |-> FALSE]

\* ControllerMessage (types.ts)
MsgProgress(l, st)     == [Msg("language-progress") EXCEPT !.lang = l, !.status = st]
MsgProgressErr(l, d)   == [Msg("language-progress") EXCEPT !.lang = l, !.status = "error", !.detail = d]
MsgRequest(l, r, ls)   == [Msg("request-translation") EXCEPT !.lang = l, !.run = r, !.langs = ls]
MsgAllComplete(reps)   == [Msg("all-complete") EXCEPT !.reports = reps]
\* Three fields are not part of the payload the code reads; they record where
\* a message comes from.  run: the run a start-generate, cancel or
\* request-translation belongs to (the AbortController created by that click on Generate), langs
\* of a request-translation: the languages of that run, late: the signal
\* passed to translateBatch was already aborted when the call returned.
\* UIMessage (types.ts)
MsgStart(ls, r, lab)   == [Msg("start-generate") EXCEPT !.langs = ls, !.run = r, !.labels = lab]
MsgCancel(r)           == [Msg("cancel") EXCEPT !.run = r]
MsgReady(l, late)      == [Msg("translations-ready") EXCEPT !.lang = l, !.late = late]
MsgTransError(l, d, late) ==
    [Msg("translation-error") EXCEPT !.lang = l, !.detail = d, !.late = late]

NoProgress == [l \in Langs |-> "none"]

\* translateBatch not called.
\* response.data: what JSON.parse made of the message content.  type is
\* "object", "array", "string", "number" or "null" ("none": no data); props are
\* the own properties of an object, each value a JSON value of some type.
Data(type, props) == [type |-> type, props |-> props]
NoData == Data("none", <<>>)

TBIdle == [pc |-> "idle", attempt |-> 0, maxRetries |-> 0, aborted |-> FALSE,
           lastError |-> "", result |-> [ok |-> FALSE, error |-> ""], trace |-> <<>>,
           entries |-> {}, data |-> NoData, translations |-> <<>>]

\* Rewrite-shorter not in use.
RWIdle == [store |-> <<>>, issues |-> {}, rewriting |-> FALSE, status |-> "done",
           calls |-> {}, started |-> 0, clone |-> <<>>, conts |-> {},
           u2c |-> <<>>, c2u |-> <<>>, notified |-> 0]

\* No document.
DocIdle == [nodes |-> <<>>, page |-> <<>>, original |-> 0, before |-> <<>>,
            originalEntries |-> <<>>, cloneMap |-> <<>>, labels |-> {}, writes |-> {},
            showLabels |-> FALSE, mirrorLayout |-> FALSE, applied |-> {}, checked |-> {},
            received |-> <<>>, sent |-> <<>>]

\* -------------------------------------------------------------------- Init
Geometry(x, y, width, height) == [x |-> x, y |-> y, width |-> width, height |-> height]
LayoutSettings(layoutMode, gap, wrapColumns) ==
    [layoutMode |-> layoutMode, gap |-> gap, wrapColumns |-> wrapColumns]

\* pl before any clone is placed, under DEFAULT_SETTINGS
PlIdle == [original |-> Geometry(0, 0, 0, 0),
           settings |-> LayoutSettings("row", 80, 3),
           index    |-> 0,
           placed   |-> {}]

\* qa before a selection is scanned
QAIdle == [entries |-> <<>>, handles |-> <<>>, received |-> <<>>,
           fontErrors |-> <<>>, reports |-> <<>>, reruns |-> 0,
           translated |-> {}, failed |-> {}, applied |-> 0, sent |-> <<>>]

\* No plugin window.
ScIdle == [selection |-> 0, originalEntries |-> 0, cloneMap |-> <<>>, pendingCount |-> 0,
           conts |-> {}, u2c |-> <<>>, c2u |-> <<>>, scanResult |-> 0,
           generating |-> FALSE, uiError |-> FALSE, tasks |-> {}, moves |-> 0,
           runs |-> <<>>, log |-> {}]

\* No report, no rewrite.
URIdle == [reports |-> [l \in 1..NumLangs |-> "none"], rewritingLangs |-> {}, calls |-> {},
           started |-> 0, qaAgain |-> {}]

\* No run yet.
FQIdle == [generating |-> FALSE, abortController |-> 0, aborted |-> {},
           langProgressMap |-> <<>>, translationQueue |-> <<>>, activeTranslations |-> 0,
           tasks |-> EmptyBag, c2u |-> <<>>, enqueued |-> <<>>, started |-> <<>>]

PipelineInit ==
    /\ generating = FALSE
    /\ abortController = 0
    /\ aborted = [r \in Runs |-> FALSE]
    /\ langProgressMap = NoProgress
    /\ translationsStore = {}
    /\ translationQueue = <<>>
    /\ activeTranslations = 0
    /\ tasks = EmptyBag
    /\ cancelled = FALSE
    /\ cloneMap = [l \in Langs |-> 0]
    /\ languageMap = {}
    /\ qaReports = <<>>
    /\ pendingCount = 0
    /\ settings = TRUE          \* DEFAULT_SETTINGS.showLabels (loaded by init)
    /\ conts = EmptyBag
    /\ u2c = <<>>
    /\ c2u = <<>>
    /\ runLanguages = <<>>
    /\ progressSent = NoProgress

Init ==
    /\ PipelineInit
    /\ tb = TBIdle
    /\ rw = RWIdle
    /\ doc = DocIdle
    /\ pl = PlIdle
    /\ qa = QAIdle
    /\ sc = ScIdle
    /\ ur = URIdle
    /\ fq = FQIdle

\* ---------------------------------------------------------------------- UI
\* updateLangProgress: only an existing entry is changed.
UpdateLangProgress(prog, l, st) ==
    IF prog[l] # "none" THEN [prog EXCEPT ![l] = st] ELSE prog

\* A processTranslation call that has reached `await translateBatch(...)`:
\* translateBatch is in iteration 0 and awaits callOpenAI.  sig is the
\* AbortController whose signal was passed; req is the run whose
\* request-translation message asked for it.
NewTask(req, sig) ==
    [lang |-> req.lang, req |-> req.run, sig |-> sig, attempt |-> 0, phase |-> "net"]

\* Faulty variant: the newest request of the queue is started first
RECURSIVE ProcessQueueNewestFirst(_, _)
ProcessQueueNewestFirst(st, sig) ==
    IF st.q # <<>> /\ st.active < MaxConcurrent
    THEN ProcessQueueNewestFirst(
           [q      |-> SubSeq(st.q, 1, Len(st.q) - 1),
            active |-> st.active + 1,
            tasks  |-> st.tasks (+) SetToBag({NewTask(st.q[Len(st.q)], sig)}),
            prog   |-> UpdateLangProgress(st.prog, st.q[Len(st.q)].lang, "translating")],
           sig)
    ELSE st

\* processQueue, called with generating = TRUE (generating cannot change
\* inside the loop).  st = [q, active, tasks, prog].
RECURSIVE ProcessQueue(_, _)
ProcessQueue(st, sig) ==
    IF st.q # <<>> /\ st.active < MaxConcurrent
    THEN ProcessQueue(
           [q      |-> Tail(st.q),
            active |-> st.active + 1,
            tasks  |-> st.tasks (+) SetToBag({NewTask(Head(st.q), sig)}),
            prog   |-> UpdateLangProgress(st.prog, Head(st.q).lang, "translating")],
           sig)
    ELSE st

QueueState == [q |-> translationQueue, active |-> activeTranslations,
               tasks |-> tasks, prog |-> langProgressMap]

SetQueueState(st) ==
    /\ translationQueue' = st.q
    /\ activeTranslations' = st.active
    /\ tasks' = st.tasks
    /\ langProgressMap' = st.prog

\* settings.showLabels as the UI holds it (DEFAULT_SETTINGS; the settings tab
\* is not modelled).
ShowLabels == TRUE

\* startGeneration (the guards on scanResult, the selection and the API key
\* are taken to pass).
StartGenerationUI(langs) ==
    /\ ~generating
    /\ abortController < MaxRuns
    /\ generating' = TRUE
    /\ abortController' = abortController + 1
    /\ langProgressMap' = [l \in Langs |-> IF l \in SeqToSet(langs) THEN "pending" ELSE "none"]
    /\ translationsStore' = {}
    /\ translationQueue' = <<>>
    /\ activeTranslations' = 0
    /\ u2c' = Append(u2c, MsgStart(langs, abortController + 1, ShowLabels))
    /\ UNCHANGED <<aborted, tasks, ctlVars, c2u>>

StartGeneration(langs) == StartGenerationUI(langs) /\ UNCHANGED unitVars

\* The in-flight fetches that abortController.abort() rejects: the calls
\* passed this signal that await callOpenAI.  A call in its back-off delay
\* awaits a timer, which the signal does not cancel.
AbortedInFlight(sig) ==
    [t \in { x \in BagToSet(tasks) : x.sig = sig /\ x.phase = "net" } |-> tasks[t]]

\* cancelGeneration.  abort() rejects the in-flight fetches; callOpenAI
\* returns ok:false, translateBatch leaves its loop (retries exhausted, or
\* signal.aborted at the head of the next iteration), processTranslation
\* returns at `if (!generating) return` and finally() decrements
\* activeTranslations: all of it microtasks of this click.
CancelGeneration ==
    /\ generating
    /\ u2c' = Append(u2c, MsgCancel(abortController))
    /\ aborted' = [aborted EXCEPT ![abortController] = TRUE]
    /\ translationQueue' = <<>>
    /\ langProgressMap' =
         [l \in Langs |-> IF langProgressMap[l] \in {"none", "done", "error"}
                          THEN langProgressMap[l] ELSE "cancelled"]
    /\ generating' = FALSE
    /\ tasks' = tasks (-) AbortedInFlight(abortController)
    /\ activeTranslations' = activeTranslations - BagCardinality(AbortedInFlight(abortController))
    /\ UNCHANGED <<abortController, translationsStore, ctlVars, unitVars, c2u>>

\* processTranslation after `await translateBatch` returned res = [ok, error],
\* then the finally() callback of processQueue.
Settle(t, res) ==
    LET rest == tasks (-) SetToBag({t}) IN
    /\ IF ~generating
       THEN /\ UNCHANGED <<translationsStore, u2c>>
       ELSE IF res.ok
            THEN /\ translationsStore' = translationsStore \cup {t.lang}
                 /\ u2c' = Append(u2c, MsgReady(t.lang, aborted[t.sig]))
            ELSE /\ u2c' = Append(u2c, MsgTransError(t.lang,
                                   IF res.error = "" THEN "Unknown error" ELSE res.error,
                                   aborted[t.sig]))
                 /\ UNCHANGED translationsStore
    /\ IF generating
       THEN SetQueueState(ProcessQueue([QueueState EXCEPT !.active = activeTranslations - 1,
                                                          !.tasks = rest],
                                       abortController))
       ELSE /\ activeTranslations' = activeTranslations - 1
            /\ tasks' = rest
            /\ UNCHANGED <<translationQueue, langProgressMap>>
    /\ UNCHANGED <<generating, abortController, aborted, ctlVars, unitVars, c2u>>

\* translateBatch goes on to iteration t.attempt + 1.
Continue(t, lastError) ==
    LET h == TBLoopHead(t.attempt + 1, DefaultMaxRetries, aborted[t.sig], lastError) IN
    IF h.kind = "call"
    THEN /\ tasks' = (tasks (-) SetToBag({t}))
                     (+) SetToBag({[t EXCEPT !.attempt = t.attempt + 1, !.phase = "net"]})
         /\ UNCHANGED <<generating, abortController, aborted, langProgressMap,
                        translationsStore, translationQueue, activeTranslations,
                        ctlVars, unitVars, u2c, c2u>>
    ELSE Settle(t, h)

\* callOpenAI returns resp to the translateBatch call of task t.
TaskResponse(t, resp) ==
    /\ t \in BagToSet(tasks)
    /\ t.phase = "net"
    /\ LET r == TBAfterResponse(t.attempt, resp) IN
       CASE r.kind = "return" -> Settle(t, r)
         [] r.kind = "delay"  ->
              /\ tasks' = (tasks (-) SetToBag({t})) (+) SetToBag({[t EXCEPT !.phase = "delay"]})
              /\ UNCHANGED <<generating, abortController, aborted, langProgressMap,
                             translationsStore, translationQueue, activeTranslations,
                             ctlVars, unitVars, u2c, c2u>>
         [] OTHER             -> Continue(t, r.error)

\* The back-off timer of task t fires.
TaskTimer(t) ==
    /\ t \in BagToSet(tasks)
    /\ t.phase = "delay"
    /\ Continue(t, ErrorOf("429"))


\* ------------------------------------------- UI: handleMessage (window.onmessage)
UIReceives(type) == c2u # <<>> /\ Head(c2u).type = type

\* case 'request-translation': enqueueTranslation, then processQueue.
UIRequestTranslation ==
    /\ UIReceives("request-translation")
    /\ c2u' = Tail(c2u)
    /\ IF ~generating
       THEN UNCHANGED <<translationQueue, activeTranslations, tasks, langProgressMap>>
       ELSE SetQueueState(ProcessQueue(
              [QueueState EXCEPT !.q = Append(translationQueue, Head(c2u))],
              abortController))
    /\ UNCHANGED <<generating, abortController, aborted, translationsStore, ctlVars, unitVars, u2c>>

\* case 'language-progress', the status part.
LanguageProgressUI(rewritingLangs) ==
    /\ UIReceives("language-progress")
    /\ c2u' = Tail(c2u)
    /\ langProgressMap' =
         IF ~generating /\ Head(c2u).lang \notin rewritingLangs THEN langProgressMap
         ELSE UpdateLangProgress(langProgressMap, Head(c2u).lang, Head(c2u).status)
    /\ UNCHANGED <<generating, abortController, aborted, translationsStore,
                   translationQueue, activeTranslations, tasks, ctlVars, u2c>>

\* case 'language-progress' (no rewrite in progress: rewritingLangs is empty).
UILanguageProgress == LanguageProgressUI({}) /\ UNCHANGED unitVars

\* case 'all-complete', case 'error', case 'cancelled': generating = false.
\* (The notify message all-complete posts back changes no state here.)
UIStops(type) ==
    /\ UIReceives(type)
    /\ c2u' = Tail(c2u)
    /\ generating' = FALSE
    /\ UNCHANGED <<abortController, aborted, langProgressMap, translationsStore,
                   translationQueue, activeTranslations, tasks, ctlVars, unitVars, u2c>>

UIAllComplete == UIStops("all-complete")
UIError       == UIStops("error")
UICancelled   == UIStops("cancelled")

\* -------------------------------------------- controller: figma.ui.onmessage
CtlReceives(type) == u2c # <<>> /\ Head(u2c).type = type

Send(msgs) == c2u' = c2u \o msgs

\* The statuses a list of messages reports, applied in order.
RECURSIVE Recorded(_, _)
Recorded(sent, msgs) ==
    IF msgs = <<>> THEN sent
    ELSE Recorded(IF Head(msgs).type = "language-progress"
                  THEN [sent EXCEPT ![Head(msgs).lang] = Head(msgs).status]
                  ELSE sent,
                  Tail(msgs))

SendAndRecord(msgs) ==
    /\ Send(msgs)
    /\ progressSent' = Recorded(progressSent, msgs)

\* A handler invocation suspended at an await.
Cont(h, pc, m) == [h |-> h, pc |-> pc, lang |-> m.lang, langs |-> m.langs, run |-> m.run]

Suspend(c) == conts' = conts (+) SetToBag({c})
Resumes(c) == c \in BagToSet(conts)

\* case 'start-generate', up to `await saveSettings(incoming)`.
\* selected: whether validateSelection() finds one supported node.
CtlStartGenerate(selected) ==
    /\ CtlReceives("start-generate")
    /\ u2c' = Tail(u2c)
    /\ cancelled' = FALSE
    /\ cloneMap' = [l \in Langs |-> 0]
    /\ languageMap' = {}
    /\ qaReports' = <<>>
    /\ runLanguages' = Head(u2c).langs
    /\ IF ~selected
       THEN /\ Send(<<Msg("error")>>)
            /\ UNCHANGED <<settings, conts>>
       ELSE /\ settings' = Head(u2c).labels
            /\ Suspend(Cont("start-generate", "saveSettings", Head(u2c)))
            /\ UNCHANGED c2u
    /\ progressSent' = NoProgress
    /\ UNCHANGED <<pendingCount, uiVars, unitVars>>

\* The two loops of start-generate: they contain no await.
DuplicateMsgs(langs) == [i \in 1..Len(langs) |-> MsgProgress(langs[i], "duplicating")]
RequestMsgs(langs, r) ==
    [i \in 1..(2 * Len(langs)) |->
        IF i % 2 = 1 THEN MsgProgress(langs[(i + 1) \div 2], "translating")
                     ELSE MsgRequest(langs[i \div 2], r, langs)]

\* Faulty variant: the clone is made for the first language only before the requests go out
DuplicateAndRequestFirstOnly(c) ==
    IF cancelled
    THEN /\ Send(<<Msg("cancelled")>>)
         /\ UNCHANGED <<cloneMap, pendingCount, progressSent>>
    ELSE /\ cloneMap' = [l \in Langs |-> IF l = Head(c.langs) THEN c.run ELSE cloneMap[l]]
         /\ pendingCount' = Len(c.langs)
         /\ SendAndRecord(DuplicateMsgs(c.langs) \o RequestMsgs(c.langs, c.run))

\* Faulty variant: the request loop stops after its first language
DuplicateAndRequestOneRequest(c) ==
    IF cancelled
    THEN /\ Send(<<Msg("cancelled")>>)
         /\ UNCHANGED <<cloneMap, pendingCount, progressSent>>
    ELSE /\ cloneMap' = [l \in Langs |-> IF l \in SeqToSet(c.langs) THEN c.run ELSE cloneMap[l]]
         /\ pendingCount' = Len(c.langs)
         /\ SendAndRecord(DuplicateMsgs(c.langs) \o RequestMsgs(<<Head(c.langs)>>, c.run)
                              \o <<Msg("cancelled")>>)

DuplicateAndRequest(c) ==
    IF cancelled
    THEN /\ Send(<<Msg("cancelled")>>)
         /\ UNCHANGED <<cloneMap, pendingCount, progressSent>>
    ELSE /\ cloneMap' = [l \in Langs |-> IF l \in SeqToSet(c.langs) THEN c.run ELSE cloneMap[l]]
         /\ pendingCount' = Len(c.langs)
         /\ SendAndRecord(DuplicateMsgs(c.langs) \o RequestMsgs(c.langs, c.run))

\* start-generate resumes after `await saveSettings`: languageMap.set for
\* every language, the originalEntries check (entries exist), then either
\* `await figma.loadFontAsync` (showLabels) or the loops.
CtlResumeStartSaved(c) ==
    /\ Resumes(c) /\ c.h = "start-generate" /\ c.pc = "saveSettings"
    /\ languageMap' = languageMap \cup SeqToSet(c.langs)
    /\ IF settings
       THEN /\ conts' = (conts (-) SetToBag({c})) (+) SetToBag({[c EXCEPT !.pc = "loadFont"]})
            /\ UNCHANGED <<cloneMap, pendingCount, progressSent, c2u>>
       ELSE /\ conts' = conts (-) SetToBag({c})
            /\ DuplicateAndRequest(c)
    /\ UNCHANGED <<cancelled, qaReports, settings, runLanguages, uiVars, unitVars, u2c>>

\* start-generate resumes after `await figma.loadFontAsync`.
CtlResumeStartFont(c) ==
    /\ Resumes(c) /\ c.h = "start-generate" /\ c.pc = "loadFont"
    /\ conts' = conts (-) SetToBag({c})
    /\ DuplicateAndRequest(c)
    /\ UNCHANGED <<cancelled, languageMap, qaReports, settings, runLanguages, uiVars, unitVars, u2c>>

\* case 'translations-ready', up to `await applyTranslations(...)`.
CtlTranslationsReady ==
    /\ CtlReceives("translations-ready")
    /\ u2c' = Tail(u2c)
    /\ LET m == Head(u2c) IN
       IF cancelled
       THEN UNCHANGED <<conts, progressSent, c2u>>
       ELSE IF cloneMap[m.lang] = 0 \/ m.lang \notin languageMap
            THEN /\ Send(<<Msg("error")>>)
                 /\ UNCHANGED <<conts, progressSent>>
            ELSE /\ SendAndRecord(<<MsgProgress(m.lang, "applying")>>)
                 /\ Suspend(Cont("translations-ready", "applyTranslations",
                                 [m EXCEPT !.run = cloneMap[m.lang]]))
    /\ UNCHANGED <<cancelled, cloneMap, languageMap, qaReports, pendingCount,
                   settings, runLanguages, uiVars, unitVars>>

\* A QAReport, reduced to its language and the clone it measured.
Report(l, r) == [lang |-> l, run |-> r]

\* pendingCount--, then all-complete if it is <= 0.
CountDown(msgs, reports) ==
    /\ pendingCount' = pendingCount - 1
    /\ SendAndRecord(IF pendingCount - 1 <= 0
                     THEN Append(msgs, MsgAllComplete(reports))
                     ELSE msgs)

\* translations-ready resumes after applyTranslations: qa, runQA, done.
CtlResumeReady(c) ==
    /\ Resumes(c) /\ c.h = "translations-ready"
    /\ conts' = conts (-) SetToBag({c})
    /\ qaReports' = Append(qaReports, Report(c.lang, c.run))
    /\ CountDown(<<MsgProgress(c.lang, "qa"), MsgProgress(c.lang, "done")>>,
                 Append(qaReports, Report(c.lang, c.run)))
    /\ UNCHANGED <<cancelled, cloneMap, languageMap, settings, runLanguages, uiVars, unitVars, u2c>>

\* Faulty variant: the failed language is reported but not counted
CtlTranslationErrorNotCounted ==
    /\ CtlReceives("translation-error")
    /\ u2c' = Tail(u2c)
    /\ IF cancelled
       THEN UNCHANGED <<progressSent, c2u>>
       ELSE SendAndRecord(<<MsgProgressErr(Head(u2c).lang, Head(u2c).detail)>>)
    /\ UNCHANGED <<cancelled, cloneMap, languageMap, qaReports, pendingCount, settings,
                   conts, runLanguages, uiVars, unitVars>>

\* case 'translation-error'.
CtlTranslationError ==
    /\ CtlReceives("translation-error")
    /\ u2c' = Tail(u2c)
    /\ IF cancelled
       THEN /\ pendingCount' = pendingCount - 1
            /\ UNCHANGED <<progressSent, c2u>>
       ELSE CountDown(<<MsgProgressErr(Head(u2c).lang, Head(u2c).detail)>>, qaReports)
    /\ UNCHANGED <<cancelled, cloneMap, languageMap, qaReports, settings, conts,
                   runLanguages, uiVars, unitVars>>

\* case 'cancel'.
CtlCancel ==
    /\ CtlReceives("cancel")
    /\ u2c' = Tail(u2c)
    /\ cancelled' = TRUE
    /\ Send(<<Msg("cancelled")>>)
    /\ UNCHANGED <<cloneMap, languageMap, qaReports, pendingCount, settings, conts,
                   runLanguages, progressSent, uiVars, unitVars>>

\* ------------------------------------------------------------- specification
Next ==
    \/ \E langs \in LangChoices : StartGeneration(langs)
    \/ CancelGeneration
    \/ \E t \in BagToSet(tasks), resp \in Responses : TaskResponse(t, resp)
    \/ \E t \in BagToSet(tasks) : TaskTimer(t)
    \/ UIRequestTranslation
    \/ UILanguageProgress
    \/ UIAllComplete
    \/ UIError
    \/ UICancelled
    \/ \E selected \in BOOLEAN : CtlStartGenerate(selected)
    \/ \E c \in BagToSet(conts) : CtlResumeStartSaved(c)
    \/ \E c \in BagToSet(conts) : CtlResumeStartFont(c)
    \/ CtlTranslationsReady
    \/ \E c \in BagToSet(conts) : CtlResumeReady(c)
    \/ CtlTranslationError
    \/ CtlCancel

Spec == Init /\ [][Next]_vars


\* ------------------------------------------------------------------ helpers
\* While generating, the current signal is not aborted: NewTask may take
\* iteration 0 of translateBatch to pass its signal check.
CurrentSignalLive == generating => (abortController > 0 /\ ~aborted[abortController])

\* The messages a step appends to a channel.
Appended(old, new) ==
    IF Len(new) > Len(old) THEN SubSeq(new, Len(old) + 1, Len(new)) ELSE <<>>

SentToUI         == SeqToSet(Appended(c2u, c2u'))
SentToController == SeqToSet(Appended(u2c, u2c'))

\* The processTranslation calls that start, and those that settle, in a step.
Dispatched == { t \in BagToSet(tasks') :
                  /\ t.attempt = 0 /\ t.phase = "net"
                  /\ CopiesIn(t, tasks') > CopiesIn(t, tasks) }
Unsettled == BagCardinality(tasks)

\* ---------------------------------------------------------------------- C1
\* C1: at every moment, over any sequence of start-generate, cancel and later
\* start-generate, at most 2 dispatched translation requests (processTranslation
\* started) have not yet settled.
C1_AtMostTwoUnsettled == Unsettled <= MaxConcurrent

\* ---------------------------------------------------------------------- C2
\* C2: once the cancel flag is set, no new translation request is dispatched,
\* and a translation result that resolves afterward produces no per-language
\* status transition and no contribution to all-complete: the controller
\* leaves pendingCount alone and sends nothing (no status, no all-complete)
\* on account of it.
C2_NoDispatchOnceCancelled ==
    /\ \A t \in Dispatched : ~aborted'[t.sig]
    /\ (~generating /\ ~generating') => Dispatched = {}
    /\ (cancelled /\ cancelled') =>
          \A m \in SentToUI : m.type # "request-translation"

C2_LateResultHasNoEffect ==
    (/\ u2c # <<>>
     /\ u2c' = Tail(u2c)
     /\ Head(u2c).type \in {"translations-ready", "translation-error"}
     /\ Head(u2c).late)
    => /\ pendingCount' = pendingCount
       /\ progressSent' = progressSent
       /\ c2u' = c2u

C2_CancelIsFinal == [][C2_NoDispatchOnceCancelled /\ C2_LateResultHasNoEffect]_vars

\* ---------------------------------------------------------------------- C3
\* C3: within a run, every change of a language's status follows
\* pending, duplicating, translating, applying, qa, done with none skipped;
\* error is entered only from translating, cancelled only from a
\* non-terminal state.
Follows(old, new) ==
    \/ \E i \in 1..(Len(MainOrder) - 1) : old = MainOrder[i] /\ new = MainOrder[i + 1]
    \/ old = "translating" /\ new = "error"
    \/ new = "cancelled" /\ old \in SeqToSet(MainOrder) \ {"done"}

C3_StatusStep ==
    abortController' = abortController =>
        \A l \in Langs :
            langProgressMap'[l] # langProgressMap[l] =>
                Follows(langProgressMap[l], langProgressMap'[l])

C3_StrictStatusOrder == [][C3_StatusStep]_vars

\* ---------------------------------------------------------------------- C4
\* C4: the controller emits all-complete only at a moment when every language
\* selected for the current run has reached done or error, and the report list
\* it carries is the list aggregated at that moment.
C4_AllCompleteStep ==
    \A m \in SentToUI :
        m.type = "all-complete" =>
            /\ \A l \in SeqToSet(runLanguages') : progressSent'[l] \in {"done", "error"}
            /\ m.reports = qaReports'

C4_AllCompleteOnlyWhenAllDone == [][C4_AllCompleteStep]_vars


\* ---------------------------------------------------------------------- C5
\* C5: in every run, duplicate+place has been performed for every selected
\* language before the first request-translation of that run is issued: when
\* a request-translation of a run is posted, the clone of that run exists for
\* every language of the run, and no duplicating status follows a request.
C5_RequestStep ==
    LET out == Appended(c2u, c2u') IN
    \A i \in 1..Len(out) :
        out[i].type = "request-translation" =>
            /\ \A l \in SeqToSet(out[i].langs) : cloneMap'[l] = out[i].run
            /\ \A j \in 1..Len(out) :
                 (out[j].type = "language-progress" /\ out[j].status = "duplicating")
                    => j < i

C5_DuplicateAllBeforeRequests == [][C5_RequestStep]_vars

\* A run of NumLangs languages has posted its requests.
C5_Witness ==
    \E i \in 1..Len(c2u) :
        /\ c2u[i].type = "request-translation"
        /\ Len(c2u[i].langs) = NumLangs
        /\ \A l \in Langs : cloneMap[l] = c2u[i].run

\* ---------------------------------------------------------------------- C6
\* C6: when translation fails for one language, the controller reports that
\* language as error with a detail message, no other language's status, clone
\* or pending handler is touched, and the failure is counted toward
\* all-complete (pendingCount drops by one; all-complete goes out when it was
\* the last); the UI sets that language, and only it, to error.
C6_ControllerStep ==
    (/\ u2c # <<>>
     /\ u2c' = Tail(u2c)
     /\ Head(u2c).type = "translation-error"
     /\ ~cancelled)
    => LET l == Head(u2c).lang IN
       /\ \E m \in SentToUI :
            m.type = "language-progress" /\ m.lang = l /\ m.status = "error" /\ m.detail # ""
       /\ \A m \in SentToUI : m.type = "language-progress" => m.lang = l
       /\ \A k \in Langs \ {l} : progressSent'[k] = progressSent[k]
       /\ cloneMap' = cloneMap /\ conts' = conts /\ qaReports' = qaReports
       /\ pendingCount' = pendingCount - 1
       /\ pendingCount' <= 0 => \E m \in SentToUI : m.type = "all-complete"

C6_UIStep ==
    (/\ c2u # <<>>
     /\ c2u' = Tail(c2u)
     /\ Head(c2u).type = "language-progress"
     /\ Head(c2u).status = "error"
     /\ generating)
    => LET l == Head(c2u).lang IN
       /\ langProgressMap[l] # "none" => langProgressMap'[l] = "error"
       /\ \A k \in Langs \ {l} : langProgressMap'[k] = langProgressMap[k]
       /\ tasks' = tasks /\ translationQueue' = translationQueue

C6_FailureIsLocalAndCounted == [][C6_ControllerStep /\ C6_UIStep]_vars

\* One language failed, the other went on to done, and the run, never
\* cancelled, was completed by all-complete.
C6_Witness ==
    /\ abortController = 1 /\ ~aborted[1] /\ ~generating
    /\ \E l, k \in Langs :
         /\ langProgressMap[l] = "error" /\ progressSent[l] = "error"
         /\ langProgressMap[k] = "done" /\ progressSent[k] = "done"
    /\ pendingCount = 0

\* ------------------------------------------------------------ rewrite-shorter
\* One language whose generation is done: the UI holds its TranslationSet in
\* translationsStore and its QA report in langProgressMap, the controller its
\* clone.  A TranslationSet is a function from the entry ids it contains to
\* texts; a text is the number of the shortenTranslations call it comes from,
\* 0 for the text translateBatch produced.  The field n of an apply-rewrites
\* message is not payload: it names the call whose result the message carries.
NumIds      == 2
MaxRewrites == 2

Ids == 1..NumIds
TranslationSets(ids, text) == UNION { [d -> {text}] : d \in SUBSET ids }

\* const merged = { ...storedTranslations, ...translations }
Merge(stored, translations) ==
    [id \in DOMAIN stored \cup DOMAIN translations |->
        IF id \in DOMAIN translations THEN translations[id] ELSE stored[id]]

\* The states a finished generation leaves: at least one id translated, the
\* QA report naming any ids as having issues, the clone showing the
\* translations (-1: the text of the original).
RWStart ==
    { [RWIdle EXCEPT !.store = st, !.issues = is,
                     !.clone = [id \in Ids |-> IF id \in DOMAIN st THEN 0 ELSE -1]] :
        st \in TranslationSets(Ids, 0) \ {<<>>}, is \in SUBSET Ids }

\* Faulty variant: every id of the report is submitted.
RWEntriesAll == rw.issues

\* The entries triggerRewriteShorter submits.
RWEntries == rw.issues \cap DOMAIN rw.store

\* triggerRewriteShorter up to `await shortenTranslations(...)`.
TriggerRewriteShorter ==
    /\ RWEntries # {}
    /\ rw.started < MaxRewrites
    /\ rw' = [rw EXCEPT !.rewriting = TRUE,
                        !.status = "applying",
                        !.started = rw.started + 1,
                        !.calls = rw.calls \cup
                            {[n |-> rw.started + 1, storedTranslations |-> rw.store,
                              entries |-> RWEntries]}]
    /\ UNCHANGED <<uiVars, ctlVars, u2c, c2u, tb, doc, pl, qa, sc, ur, fq>>

\* Click on the language's "Rewrite shorter" button, which renderIssuesSummary shows
\* only while the language is not in rewritingLangs.
ClickRewriteShorter == ~rw.rewriting /\ TriggerRewriteShorter

\* Click on "Rewrite all shorter", shown while any report has issue ids.
ClickRewriteAll == rw.issues # {} /\ TriggerRewriteShorter

\* send({ type: 'notify', message: error || 'Rewrite failed', error: true })
MsgNotify(c) == [type |-> "notify", n |-> c.n, translations |-> <<>>]

\* Faulty variant: a failed call is made again.
RewriteFailsRetry(c) ==
    /\ c \in rw.calls
    /\ rw.started < MaxRewrites
    /\ rw' = [rw EXCEPT !.calls = (rw.calls \ {c}) \cup {[c EXCEPT !.n = rw.started + 1]},
                        !.started = rw.started + 1]
    /\ UNCHANGED <<uiVars, ctlVars, u2c, c2u, tb, doc, pl, qa, sc, ur, fq>>

\* shortenTranslations of call c fails (or throws): notify, the language
\* leaves rewritingLangs, status back to done.
RewriteFails(c) ==
    /\ c \in rw.calls
    /\ rw' = [rw EXCEPT !.calls = rw.calls \ {c}, !.rewriting = FALSE, !.status = "done",
                        !.u2c = Append(rw.u2c, MsgNotify(c))]
    /\ UNCHANGED <<uiVars, ctlVars, u2c, c2u, tb, doc, pl, qa, sc, ur, fq>>

\* send({ type: 'apply-rewrites', langCode, translations })
MsgApplyRewrites(c, translations) ==
    [type |-> "apply-rewrites", n |-> c.n, translations |-> translations]

\* shortenTranslations of call c returns `translations`: merge and store, then
\* send apply-rewrites.
RewriteReturns(c, translations) ==
    /\ c \in rw.calls
    /\ rw' = [rw EXCEPT !.calls = rw.calls \ {c},
                        !.store = Merge(c.storedTranslations, translations),
                        !.u2c = Append(rw.u2c, MsgApplyRewrites(c, translations))]
    /\ UNCHANGED <<uiVars, ctlVars, u2c, c2u, tb, doc, pl, qa, sc, ur, fq>>

\* controller, case 'apply-rewrites', up to `await applyTranslations(...)`.
CtlApplyRewrites ==
    /\ rw.u2c # <<>>
    /\ Head(rw.u2c).type = "apply-rewrites"
    /\ rw' = [rw EXCEPT !.u2c = Tail(rw.u2c),
                        !.c2u = Append(rw.c2u, [status |-> "applying", hasReport |-> FALSE,
                                                issues |-> {}]),
                        !.conts = rw.conts \cup {Head(rw.u2c)}]
    /\ UNCHANGED <<uiVars, ctlVars, u2c, c2u, tb, doc, pl, qa, sc, ur, fq>>

\* apply-rewrites resumes: the clone's text nodes got the new texts, runQA
\* reports the ids that still have issues, status done.
CtlResumeApplyRewrites(m, issueEntryIds) ==
    /\ m \in rw.conts
    /\ rw' = [rw EXCEPT !.conts = rw.conts \ {m},
                        !.clone = [id \in Ids |-> IF id \in DOMAIN m.translations
                                                  THEN m.translations[id] ELSE rw.clone[id]],
                        !.c2u = Append(rw.c2u, [status |-> "done", hasReport |-> TRUE,
                                                issues |-> issueEntryIds])]
    /\ UNCHANGED <<uiVars, ctlVars, u2c, c2u, tb, doc, pl, qa, sc, ur, fq>>

\* controller, case 'notify': figma.notify(msg.message, { error: true }).
CtlNotify ==
    /\ rw.u2c # <<>>
    /\ Head(rw.u2c).type = "notify"
    /\ rw' = [rw EXCEPT !.u2c = Tail(rw.u2c), !.notified = rw.notified + 1]
    /\ UNCHANGED <<uiVars, ctlVars, u2c, c2u, tb, doc, pl, qa, sc, ur, fq>>

\* UI, case 'language-progress' with generating = false.
UIRewriteProgress ==
    /\ rw.c2u # <<>>
    /\ LET p == Head(rw.c2u) IN
       rw' = IF ~rw.rewriting
             THEN [rw EXCEPT !.c2u = Tail(rw.c2u)]
             ELSE [rw EXCEPT !.c2u = Tail(rw.c2u),
                             !.rewriting = ~(p.status \in {"done", "error"}),
                             !.status = p.status,
                             !.issues = IF p.hasReport THEN p.issues ELSE rw.issues]
    /\ UNCHANGED <<uiVars, ctlVars, u2c, c2u, tb, doc, pl, qa, sc, ur, fq>>

InitRW ==
    /\ PipelineInit
    /\ tb = TBIdle
    /\ rw \in RWStart
    /\ doc = DocIdle
    /\ pl = PlIdle
    /\ qa = QAIdle
    /\ sc = ScIdle
    /\ ur = URIdle
    /\ fq = FQIdle

NextRW ==
    \/ ClickRewriteShorter
    \/ ClickRewriteAll
    \/ \E c \in rw.calls : RewriteFails(c)
    \/ \E c \in rw.calls : \E t \in TranslationSets(c.entries, c.n) : RewriteReturns(c, t)
    \/ CtlApplyRewrites
    \/ CtlNotify
    \/ \E m \in rw.conts, is \in SUBSET Ids : CtlResumeApplyRewrites(m, is)
    \/ UIRewriteProgress

SpecRW == InitRW /\ [][NextRW]_vars

\* ---------------------------------------------------------------------- C8
\* C8: when a shorten result is merged into the stored TranslationSet of the
\* language (the step that sends apply-rewrites with that result), every
\* stored entry whose id is absent from the result is kept, every id present
\* in the result gets the result's text, and no id leaves the stored set.
C8_MergeStep ==
    \A m \in { a \in SeqToSet(Appended(rw.u2c, rw'.u2c)) : a.type = "apply-rewrites" } :
        /\ \A id \in DOMAIN rw.store \ DOMAIN m.translations :
              id \in DOMAIN rw'.store /\ rw'.store[id] = rw.store[id]
        /\ \A id \in DOMAIN m.translations :
              id \in DOMAIN rw'.store /\ rw'.store[id] = m.translations[id]
        /\ DOMAIN rw.store \subseteq DOMAIN rw'.store

C8_MergeLaw == [][C8_MergeStep]_vars

\* --------------------------------------------------------------- the document
\* doc.nodes is the node table: the node with id n is doc.nodes[n], the page
\* has id 0 and its child list is doc.page.  A node has a type, a parent, a
\* child list, its characters, its textAutoResize and its layoutMode.
\* doc.writes records every property assignment and every appendChild the
\* controller performs, as [node, prop]; doc.before is the node table as the
\* user left it.
MaxChildren == 2

Node(type, parent, children, characters, resize, layout) ==
    [type |-> type, parent |-> parent, children |-> children,
     characters |-> characters, textAutoResize |-> resize, layoutMode |-> layout]

Write(n, prop) == [node |-> n, prop |-> prop]

\* The node and, for a node with children, its descendants, depth first.
RECURSIVE Walk(_, _), WalkAll(_, _)
Walk(nodes, n) == <<n>> \o WalkAll(nodes, nodes[n].children)
WalkAll(nodes, kids) ==
    IF kids = <<>> THEN <<>> ELSE Walk(nodes, Head(kids)) \o WalkAll(nodes, Tail(kids))

IsText(nodes, n) == nodes[n].type = "TEXT"

\* collectTextNodes
CollectTextNodes(nodes, n) == SelectSeq(Walk(nodes, n), LAMBDA k : IsText(nodes, k))

\* scanTextNodes: an entry for every text node whose characters are not
\* blank, ids in scan order (no node of the documents below is locked).
ScanTextNodes(nodes, root) ==
    LET texts == SelectSeq(CollectTextNodes(nodes, root),
                           LAMBDA k : nodes[k].characters # "")
    IN [i \in 1..Len(texts) |-> [id |-> i, nodeId |-> texts[i]]]

\* node.clone(): a copy of the subtree with fresh ids, parented under the page.
Position(seq, x) == CHOOSE i \in 1..Len(seq) : seq[i] = x
Clone(d, n) ==
    LET sub    == Walk(d.nodes, n)
        new(k) == Len(d.nodes) + Position(sub, k)
        copy   == [i \in 1..Len(sub) |->
                     [d.nodes[sub[i]] EXCEPT
                        !.parent = IF i = 1 THEN 0 ELSE new(d.nodes[sub[i]].parent),
                        !.children = [j \in 1..Len(d.nodes[sub[i]].children) |->
                                         new(d.nodes[sub[i]].children[j])]]]
    IN [d EXCEPT !.nodes = d.nodes \o copy, !.page = Append(d.page, new(n))]

Without(seq, x) == SelectSeq(seq, LAMBDA y : y # x)

\* parent.appendChild(child): child leaves its parent's list and becomes the
\* last child of parent.
AppendChild(d, parent, child) ==
    LET old     == d.nodes[child].parent
        removed == IF old = 0 THEN [d EXCEPT !.page = Without(d.page, child)]
                   ELSE [d EXCEPT !.nodes[old].children = Without(d.nodes[old].children, child)]
        added   == IF parent = 0 THEN [removed EXCEPT !.page = Append(removed.page, child)]
                   ELSE [removed EXCEPT !.nodes[parent].children =
                                            Append(removed.nodes[parent].children, child)]
    IN [added EXCEPT !.nodes[child].parent = parent,
                     !.writes = added.writes \cup {Write(parent, "children"), Write(child, "parent")}]

\* Faulty variant: the clone's text nodes are paired last to first
TextNodeMapReversed(d, origTexts, cloneTexts) ==
    LET hits == { i \in 1..Len(origTexts) :
                    i <= Len(cloneTexts) /\
                    \E e \in SeqToSet(d.originalEntries) : e.nodeId = origTexts[i] }
        entry(i) == CHOOSE e \in SeqToSet(d.originalEntries) : e.nodeId = origTexts[i]
    IN [id \in { entry(i).id : i \in hits } |->
          cloneTexts[Len(cloneTexts) + 1 - (CHOOSE i \in hits : entry(i).id = id)]]

\* Faulty variant: the map hands out the original's text nodes
TextNodeMapOfOriginal(d, origTexts, cloneTexts) ==
    LET hits == { i \in 1..Len(origTexts) :
                    i <= Len(cloneTexts) /\
                    \E e \in SeqToSet(d.originalEntries) : e.nodeId = origTexts[i] }
        entry(i) == CHOOSE e \in SeqToSet(d.originalEntries) : e.nodeId = origTexts[i]
    IN [id \in { entry(i).id : i \in hits } |->
          origTexts[CHOOSE i \in hits : entry(i).id = id]]

\* The text-node map of duplicateAndPlace: the i-th text node of the clone for
\* the entry whose nodeId is the i-th text node of the original.
TextNodeMap(d, origTexts, cloneTexts) ==
    LET hits == { i \in 1..Len(origTexts) :
                    i <= Len(cloneTexts) /\
                    \E e \in SeqToSet(d.originalEntries) : e.nodeId = origTexts[i] }
        entry(i) == CHOOSE e \in SeqToSet(d.originalEntries) : e.nodeId = origTexts[i]
    IN [id \in { entry(i).id : i \in hits } |->
          cloneTexts[CHOOSE i \in hits : entry(i).id = id]]

\* duplicateAndPlace, then cloneMap.set(lang.code, { clone, textNodeMap }).
DuplicateAndPlace(d, lang) ==
    LET cloned == Clone(d, d.original)
        clone  == Len(d.nodes) + 1
        placed == [cloned EXCEPT !.writes = cloned.writes \cup
                      {Write(clone, "name"), Write(clone, "x"), Write(clone, "y")}]
        map    == TextNodeMap(placed, CollectTextNodes(placed.nodes, placed.original),
                              CollectTextNodes(placed.nodes, clone))
        put    == AppendChild(placed, placed.nodes[placed.original].parent, clone)
    IN [put EXCEPT !.cloneMap = Append(put.cloneMap, [lang |-> lang, clone |-> clone,
                                                      textNodeMap |-> map])]

\* addLabel: figma.createText() makes a text node under the page; it is set
\* up and appended to the clone's parent.
AddLabel(d, clone) ==
    LET label   == Len(d.nodes) + 1
        created == [d EXCEPT !.nodes = Append(d.nodes, Node("TEXT", 0, <<>>, "label",
                                                            "WIDTH_AND_HEIGHT", "NONE")),
                             !.page = Append(d.page, label),
                             !.labels = d.labels \cup {label},
                             !.writes = d.writes \cup
                                 { Write(label, prop) :
                                     prop \in {"fontName", "characters", "fontSize", "fills",
                                               "name", "x", "y"} }]
    IN AppendChild(created, created.nodes[clone].parent, label)

Reverse(seq) == [i \in 1..Len(seq) |-> seq[Len(seq) + 1 - i]]

\* mirrorAutoLayout: every child re-appended, last first.
MirrorAutoLayout(d, n) ==
    IF d.nodes[n].type # "FRAME" \/ d.nodes[n].layoutMode # "HORIZONTAL" THEN d
    ELSE [d EXCEPT !.nodes[n].children = Reverse(d.nodes[n].children),
                   !.writes = d.writes \cup {Write(n, "children")} \cup
                              { Write(k, "parent") : k \in SeqToSet(d.nodes[n].children) }]

\* The clone record of a language.
CloneRecord(d, lang) ==
    CHOOSE r \in SeqToSet(d.cloneMap) : r.lang = lang

HasClone(d, lang) == \E r \in SeqToSet(d.cloneMap) : r.lang = lang

\* Language 2 is written right to left.
IsRTL(lang) == lang = 2

\* Faulty variant: a handle whose id the translations lack is blanked.
ApplyTranslationsBlanking(d, lang, translations, fontErrors) ==
    LET map     == CloneRecord(d, lang).textNodeMap
        ids     == (DOMAIN translations \cap DOMAIN map) \ fontErrors
        targets == { map[id] : id \in DOMAIN map \ fontErrors }
        text(n) == LET id == CHOOSE id \in DOMAIN map : map[id] = n
                   IN IF id \in ids THEN translations[id] ELSE ""
    IN [d EXCEPT !.nodes = [n \in DOMAIN d.nodes |->
                              IF n \in targets
                              THEN [d.nodes[n] EXCEPT !.characters = text(n)]
                              ELSE d.nodes[n]],
                 !.applied = d.applied \cup {lang},
                 !.writes = d.writes \cup { Write(n, "characters") : n \in targets }]

\* applyTranslations: for every id of `translations` that has a handle and
\* whose fonts load (or fall back), the handle's characters are set, and for
\* an RTL language its direction and alignment.
ApplyTranslations(d, lang, translations, fontErrors) ==
    LET map     == CloneRecord(d, lang).textNodeMap
        ids     == (DOMAIN translations \cap DOMAIN map) \ fontErrors
        targets == { map[id] : id \in ids }
        text(n) == translations[CHOOSE id \in ids : map[id] = n]
    IN [d EXCEPT !.nodes = [n \in DOMAIN d.nodes |->
                              IF n \in targets
                              THEN [d.nodes[n] EXCEPT !.characters = text(n)]
                              ELSE d.nodes[n]],
                 !.applied = d.applied \cup {lang},
                 !.writes = d.writes \cup { Write(n, "characters") : n \in targets }
                     \cup { Write(n, prop) : n \in (IF IsRTL(lang) THEN targets ELSE {}),
                            prop \in {"paragraphDirection", "textAlignHorizontal"} }]

\* measureNeededHeight: textAutoResize goes to HEIGHT and back, then resize().
MeasureNeededHeight(d, n) ==
    IF d.nodes[n].textAutoResize = "HEIGHT" THEN d
    ELSE [d EXCEPT !.writes = d.writes \cup {Write(n, "textAutoResize"), Write(n, "size")}]

\* runQA: the handles in fixed-size mode are measured.
RECURSIVE MeasureAll(_, _)
MeasureAll(d, handles) ==
    IF handles = {} THEN d
    ELSE LET n == CHOOSE n \in handles : TRUE
         IN MeasureAll(IF d.nodes[n].textAutoResize = "NONE"
                       THEN MeasureNeededHeight(d, n) ELSE d,
                       handles \ {n})

RunQA(d, lang) ==
    LET map == CloneRecord(d, lang).textNodeMap
    IN [MeasureAll(d, { map[id] : id \in DOMAIN map }) EXCEPT !.checked = d.checked \cup {lang}]

\* The duplicate loop of start-generate for one language.
DuplicateOne(d, lang) ==
    LET dup     == DuplicateAndPlace(d, lang)
        clone   == CloneRecord(dup, lang).clone
        labeled == IF dup.showLabels THEN AddLabel(dup, clone) ELSE dup
    IN IF IsRTL(lang) /\ dup.mirrorLayout THEN MirrorAutoLayout(labeled, clone) ELSE labeled

RECURSIVE DuplicateEach(_, _)
DuplicateEach(d, langs) ==
    IF langs = <<>> THEN d ELSE DuplicateEach(DuplicateOne(d, Head(langs)), Tail(langs))

\* The last message handled for a language; for translations-ready with its
\* translations and the ids whose fonts failed to load while it was applied.
NoMessage == [type |-> "none", translations |-> <<>>, fontErrors |-> {}]
Handled(d, lang, type, translations, fontErrors) ==
    [type |-> type, translations |-> translations,
     fontErrors |-> fontErrors \cap DOMAIN translations
                        \cap DOMAIN CloneRecord(d, lang).textNodeMap]

\* The documents the run starts from: a frame with up to MaxChildren
\* children, each a text node, a blank text node, or a frame holding one
\* text node; the frame is the page's only child and is selected and scanned.
ChildKinds == {"TEXT", "BLANK", "FRAME"}
Shapes == UNION { [1..n -> ChildKinds] : n \in 1..MaxChildren }

Size(kind) == IF kind = "FRAME" THEN 2 ELSE 1
RECURSIVE FirstId(_, _)
FirstId(shape, i) == IF i = 1 THEN 2 ELSE FirstId(shape, i - 1) + Size(shape[i - 1])

Original(shape, layout) ==
    LET last == FirstId(shape, Len(shape)) + Size(shape[Len(shape)]) - 1
        child(n) == CHOOSE i \in 1..Len(shape) : FirstId(shape, i) \in {n, n - 1}
                                                  /\ n < FirstId(shape, i) + Size(shape[i])
    IN [n \in 1..last |->
          IF n = 1
          THEN Node("FRAME", 0, [i \in 1..Len(shape) |-> FirstId(shape, i)], "", "NONE", layout)
          ELSE IF n = FirstId(shape, child(n))
               THEN CASE shape[child(n)] = "TEXT"  -> Node("TEXT", 1, <<>>, "source", "NONE", "NONE")
                      [] shape[child(n)] = "BLANK" -> Node("TEXT", 1, <<>>, "", "HEIGHT", "NONE")
                      [] OTHER -> Node("FRAME", 1, <<n + 1>>, "", "NONE", "NONE")
               ELSE Node("TEXT", n - 1, <<>>, "source", "HEIGHT", "NONE")]

DocStart ==
    { [DocIdle EXCEPT !.nodes = Original(shape, layout), !.page = <<1>>, !.original = 1,
                      !.before = Original(shape, layout),
                      !.originalEntries = ScanTextNodes(Original(shape, layout), 1),
                      !.showLabels = labels, !.mirrorLayout = mirror,
                      !.received = [l \in Langs |-> NoMessage],
                      !.sent = [l \in Langs |-> <<>>]] :
        shape \in Shapes, layout \in {"NONE", "HORIZONTAL"},
        labels \in BOOLEAN, mirror \in BOOLEAN }

\* start-generate: the duplicate loop over the selected languages.
DocDuplicate(langs) ==
    /\ doc.cloneMap = <<>>
    /\ doc.originalEntries # <<>>
    /\ doc' = DuplicateEach(doc, langs)
    /\ UNCHANGED <<uiVars, ctlVars, u2c, c2u, tb, rw, pl, qa, sc, ur, fq>>

\* translations-ready: applyTranslations, then runQA.  translateBatch hands
\* over a result only if it has at least one translation.
DocTranslationsReady(lang, translations, fontErrors) ==
    /\ HasClone(doc, lang)
    /\ translations # <<>>
    /\ lang \notin doc.applied
    /\ doc' = [RunQA(ApplyTranslations(doc, lang, translations, fontErrors), lang)
                  EXCEPT !.received[lang] = Handled(doc, lang, "translations-ready",
                                                    translations, fontErrors),
                         !.sent[lang] = <<"applying", "qa", "done">>]
    /\ UNCHANGED <<uiVars, ctlVars, u2c, c2u, tb, rw, pl, qa, sc, ur, fq>>

\* apply-rewrites: applyTranslations, then runQA.
DocApplyRewrites(lang, translations, fontErrors) ==
    /\ HasClone(doc, lang)
    /\ lang \in doc.checked
    /\ doc' = [RunQA(ApplyTranslations(doc, lang, translations, fontErrors), lang)
                  EXCEPT !.received[lang] = [NoMessage EXCEPT !.type = "apply-rewrites"],
                         !.sent[lang] = <<"applying", "done">>]
    /\ UNCHANGED <<uiVars, ctlVars, u2c, c2u, tb, rw, pl, qa, sc, ur, fq>>

EntryIds == { e.id : e \in SeqToSet(doc.originalEntries) }

InitDoc ==
    /\ PipelineInit
    /\ tb = TBIdle
    /\ rw = RWIdle
    /\ doc \in DocStart
    /\ pl = PlIdle
    /\ qa = QAIdle
    /\ sc = ScIdle
    /\ ur = URIdle
    /\ fq = FQIdle

NextDoc ==
    \/ \E langs \in LangChoices : DocDuplicate(langs)
    \/ \E lang \in Langs, t \in TranslationSets(EntryIds, "translated"),
          f \in SUBSET EntryIds : DocTranslationsReady(lang, t, f)
    \/ \E lang \in Langs, t \in TranslationSets(EntryIds, "shorter"),
          f \in SUBSET EntryIds : DocApplyRewrites(lang, t, f)

SpecDoc == InitDoc /\ [][NextDoc]_vars

\* ---------------------------------------------------------------------- C7
\* The nodes of the original subtree, of the clone of a language, of all clones.
OriginalNodes == SeqToSet(Walk(doc.before, doc.original))
CloneNodes(lang) == SeqToSet(Walk(doc.nodes, CloneRecord(doc, lang).clone))
AllCloneNodes == UNION { CloneNodes(r.lang) : r \in SeqToSet(doc.cloneMap) }

\* The original subtree is as the user left it and no write targets it.
OriginalUntouched ==
    /\ \A n \in OriginalNodes : doc.nodes[n] = doc.before[n]
    /\ \A w \in doc.writes : w.node \notin OriginalNodes

\* Every handle of a language's map is a text node of that language's clone.
HandlesInOwnClone ==
    \A r \in SeqToSet(doc.cloneMap) :
        \A id \in DOMAIN r.textNodeMap :
            r.textNodeMap[id] \in CloneNodes(r.lang) /\ IsText(doc.nodes, r.textNodeMap[id])

\* Inserting the clone or a label: appendChild on the original's parent.
Insertion == Write(doc.nodes[doc.original].parent, "children")

\* C7 (as stated): the original is never mutated, every write targets a node
\* of a clone (apart from inserting a node into the original's parent), and
\* every stored text handle is a node of its language's clone.
C7_EveryWriteTargetsAClone ==
    /\ OriginalUntouched
    /\ \A w \in doc.writes \ {Insertion} : w.node \in AllCloneNodes
    /\ HandlesInOwnClone

\* C7 (amended): the original is never mutated; every write targets a node of
\* a clone or a label node that the controller itself created beside the
\* clone, outside the clone's subtree (apart from inserting clone and label
\* into the original's parent); every stored text handle is a text node of
\* its language's clone.
C7_OriginalNeverMutated ==
    /\ OriginalUntouched
    /\ \A w \in doc.writes \ {Insertion} :
          w.node \in AllCloneNodes \/ w.node \in doc.labels
    /\ doc.labels \cap (AllCloneNodes \cup OriginalNodes) = {}
    /\ HandlesInOwnClone

\* Every language has its clone, a label and a mirrored RTL clone exist,
\* translations and a rewrite were applied to handles and QA measured them.
C7_Witness ==
    /\ Len(doc.cloneMap) = NumLangs
    /\ doc.labels # {}
    /\ \E w \in doc.writes : w.prop = "children" /\ w.node \in AllCloneNodes
    /\ \E w \in doc.writes : w.prop = "textAutoResize"
    /\ \E r \in SeqToSet(doc.cloneMap) : \E id \in DOMAIN r.textNodeMap :
          doc.nodes[r.textNodeMap[id]].characters = "shorter"
    /\ \E r \in SeqToSet(doc.cloneMap) : \E id \in DOMAIN r.textNodeMap :
          doc.nodes[r.textNodeMap[id]].characters = "translated"

\* ------------------------------------------------ translateBatch on its own
\* One call translateBatch(..., maxRetries, signal), with callOpenAI answering
\* anything and the signal aborted at any time.  tb.trace lists what the call
\* has done: the callOpenAI calls it started, the responses it got, the
\* delay() waits it began.
MaxRetriesBound == 3

TBEvent(ev, attempt, resp, ms) == [ev |-> ev, attempt |-> attempt, resp |-> resp, ms |-> ms]

\* The loop head of iteration `attempt`: callOpenAI is called, or the call
\* returns.
TBEnter(t, attempt) ==
    LET h == TBLoopHead(attempt, t.maxRetries, t.aborted, t.lastError) IN
    IF h.kind = "call"
    THEN [t EXCEPT !.pc = "callOpenAI", !.attempt = attempt,
                   !.trace = Append(t.trace, TBEvent("call", attempt, "", 0))]
    ELSE [t EXCEPT !.pc = "returned", !.attempt = attempt,
                   !.result = [ok |-> h.ok, error |-> h.error]]

\* Faulty variant: the back-off after a 429 is skipped
TBHandleNoBackoff(t, resp) ==
    LET r   == TBAfterResponse(t.attempt, resp)
        got == [t EXCEPT !.trace = Append(t.trace, TBEvent("response", t.attempt, resp, 0)),
                         !.lastError = r.error]
    IN CASE r.kind = "return" -> [got EXCEPT !.pc = "returned",
                                             !.result = [ok |-> r.ok, error |-> r.error]]
         [] OTHER             -> TBEnter(got, t.attempt + 1)

\* callOpenAI brought back resp.
TBHandle(t, resp) ==
    LET r   == TBAfterResponse(t.attempt, resp)
        got == [t EXCEPT !.trace = Append(t.trace, TBEvent("response", t.attempt, resp, 0)),
                         !.lastError = r.error]
    IN CASE r.kind = "return" -> [got EXCEPT !.pc = "returned",
                                             !.result = [ok |-> r.ok, error |-> r.error]]
         [] r.kind = "delay"  -> [got EXCEPT !.pc = "delay",
                                             !.trace = Append(got.trace,
                                                 TBEvent("wait", t.attempt, "", r.ms))]
         [] OTHER             -> TBEnter(got, t.attempt + 1)

\* translateBatch is called.
TBCall(entries, maxRetries, sigAborted) ==
    /\ tb.pc = "idle"
    /\ tb' = TBEnter([tb EXCEPT !.entries = entries, !.maxRetries = maxRetries,
                                !.aborted = sigAborted], 0)
    /\ UNCHANGED <<uiVars, ctlVars, u2c, c2u, rw, doc, pl, qa, sc, ur, fq>>

TBResponse(resp) ==
    /\ tb.pc = "callOpenAI"
    /\ tb' = [TBHandle(tb, resp) EXCEPT !.data = NoData]
    /\ UNCHANGED <<uiVars, ctlVars, u2c, c2u, rw, doc, pl, qa, sc, ur, fq>>

\* delay(ms) resolves.
TBTimer ==
    /\ tb.pc = "delay"
    /\ tb' = TBEnter(tb, tb.attempt + 1)
    /\ UNCHANGED <<uiVars, ctlVars, u2c, c2u, rw, doc, pl, qa, sc, ur, fq>>

\* The caller aborts the signal.  A pending fetch rejects, which callOpenAI
\* turns into ok:false without a status; a pending delay() goes on.
TBAbort ==
    /\ tb.pc \in {"callOpenAI", "delay"}
    /\ ~tb.aborted
    /\ tb' = IF tb.pc = "callOpenAI"
             THEN [TBHandle([tb EXCEPT !.aborted = TRUE], "network") EXCEPT !.data = NoData]
             ELSE [tb EXCEPT !.aborted = TRUE]
    /\ UNCHANGED <<uiVars, ctlVars, u2c, c2u, rw, doc, pl, qa, sc, ur, fq>>

\* The values a response can give a key, and the data callOpenAI can hand
\* over with ok:true: objects over the entry ids and one key nobody asked for,
\* an array, a string, null.
ExtraKey == NumIds + 1
JsonValues == {[type |-> "string", text |-> "hola"], [type |-> "number", text |-> "7"]}
ResponseData ==
    { Data("object", props) :
        props \in UNION { [keys -> JsonValues] : keys \in SUBSET (Ids \cup {ExtraKey}) } }
    \cup {Data("array", <<>>), Data("string", <<>>), Data("null", <<>>)}

\* typeof data === 'object' and data is not null.
IsObject(data) == data.type \in {"object", "array"}

\* Faulty variant: every key of the response is taken over
ExtractTranslationsAllKeys(entries, data) ==
    [id \in DOMAIN data.props |-> data.props[id].text]

\* The extraction loop: the requested ids whose value is a string.
ExtractTranslations(entries, data) ==
    [id \in { e \in entries : e \in DOMAIN data.props /\ data.props[e].type = "string" } |->
        data.props[id].text]

\* How translateBatch takes response.data of an ok:true response.
ResponseKind(entries, data) ==
    IF ~IsObject(data) THEN "notobject"
    ELSE IF ExtractTranslations(entries, data) = <<>> THEN "novalid"
    ELSE "ok"

\* callOpenAI returns ok:true with data.
TBData(data) ==
    /\ tb.pc = "callOpenAI"
    /\ LET kind == ResponseKind(tb.entries, data) IN
       tb' = [TBHandle(tb, kind) EXCEPT
                !.data = data,
                !.translations = IF kind = "ok" THEN ExtractTranslations(tb.entries, data)
                                 ELSE <<>>]
    /\ UNCHANGED <<uiVars, ctlVars, u2c, c2u, rw, doc, pl, qa, sc, ur, fq>>

\* callOpenAI with ok:false.
FailureResponses == {"401", "429", "http", "network", "empty", "badjson"}

\* callOpenAI settles.
TBSettles ==
    \/ \E resp \in FailureResponses : TBResponse(resp)
    \/ \E data \in ResponseData : TBData(data)

NextTB ==
    \/ \E e \in SUBSET Ids \ {{}}, n \in 0..MaxRetriesBound, a \in BOOLEAN : TBCall(e, n, a)
    \/ \E resp \in FailureResponses : TBResponse(resp)
    \/ \E data \in ResponseData : TBData(data)
    \/ TBTimer
    \/ TBAbort

SpecTB == Init /\ [][NextTB]_vars

\* ---------------------------------------------------------------------- C9
\* C9: a 401 response ends the attempt loop at once, whatever retry budget is
\* left: it is the last thing the call did (no further callOpenAI, no wait),
\* and the call has returned translations = none with the auth error.
C9_401IsFinal ==
    \A i \in 1..Len(tb.trace) :
        (tb.trace[i].ev = "response" /\ tb.trace[i].resp = "401")
        => /\ i = Len(tb.trace)
           /\ tb.pc = "returned"
           /\ tb.result = [ok |-> FALSE, error |-> "Invalid API key (401)."]

\* A 401 arrived with two retries to spare.
C9_Witness ==
    /\ tb.pc = "returned"
    /\ tb.trace # <<>>
    /\ tb.trace[Len(tb.trace)].resp = "401"
    /\ tb.attempt + 2 <= tb.maxRetries
    /\ ~tb.aborted

\* --------------------------------------------------------------------- C10
\* C10: after every 429 response of iteration `attempt` the call waits
\* 2000 ms x (attempt + 1) before anything else, so before the next attempt;
\* after a malformed-JSON or zero-valid-ids response it starts no wait: what
\* follows, if anything, is the next callOpenAI.  Hence every wait follows a 429.
TBMalformed == {"badjson", "notobject", "novalid"}

C10_BackoffOnlyAfter429 ==
    \A i \in 1..Len(tb.trace) :
        LET e == tb.trace[i] IN
        /\ (e.ev = "response" /\ e.resp = "429")
           => /\ i < Len(tb.trace)
              /\ tb.trace[i + 1] = TBEvent("wait", e.attempt, "", 2000 * (e.attempt + 1))
              /\ (i + 1 = Len(tb.trace) => tb.pc \in {"delay", "returned"})
        /\ (e.ev = "response" /\ e.resp \in TBMalformed)
           => /\ i < Len(tb.trace) => tb.trace[i + 1] = TBEvent("call", e.attempt + 1, "", 0)
              /\ i = Len(tb.trace) => tb.pc = "returned"
        /\ e.ev = "wait"
           => i > 1 /\ tb.trace[i - 1].ev = "response" /\ tb.trace[i - 1].resp = "429"

\* A 429 in iteration 1 was followed by a wait of 4000 ms and then the next
\* call, and a malformed answer by the next call directly.
C10_Witness ==
    /\ \E i \in 1..(Len(tb.trace) - 2) :
         /\ tb.trace[i] = TBEvent("response", 1, "429", 0)
         /\ tb.trace[i + 1] = TBEvent("wait", 1, "", 4000)
         /\ tb.trace[i + 2].ev = "call"
    /\ \E i \in 1..(Len(tb.trace) - 1) :
         /\ tb.trace[i].ev = "response" /\ tb.trace[i].resp \in TBMalformed
         /\ tb.trace[i + 1].ev = "call"

\* callOpenAI settles and delay() resolves: fetch ends in a response or an
\* error, and a timer fires.
SpecTBFair ==
    /\ SpecTB
    /\ WF_vars(TBSettles)
    /\ WF_vars(TBTimer)

\* What the call has done: the iterations that called callOpenAI, the
\* responses it got.
TBCalls     == { i \in 1..Len(tb.trace) : tb.trace[i].ev = "call" }
TBResponses == { i \in 1..Len(tb.trace) : tb.trace[i].ev = "response" }
TBLastResponse == tb.trace[CHOOSE i \in TBResponses : \A j \in TBResponses : j <= i]

\* --------------------------------------------------------------------- C11
\* C11: translateBatch makes at most maxRetries + 1 network calls (3 with the
\* default of 2) and always returns; when every attempt failed (the call was
\* not ended by the cancellation check) it returns translations = none with
\* the error message of the last failed attempt.
C11_Bounded ==
    /\ Cardinality(TBCalls) <= tb.maxRetries + 1
    /\ tb.maxRetries = DefaultMaxRetries => Cardinality(TBCalls) <= 3
    /\ (tb.pc = "returned" /\ ~tb.result.ok /\ TBResponses # {}
        /\ (Cardinality(TBCalls) = tb.maxRetries + 1 \/ tb.result.error # "Cancelled."))
       => /\ TBLastResponse.resp # "ok"
          /\ tb.result.error = ErrorOf(TBLastResponse.resp)

C11_BoundedAndReturns ==
    /\ []C11_Bounded
    /\ (tb.pc # "idle") ~> (tb.pc = "returned")

\* All three attempts of a call with maxRetries = 2 failed, the last one in
\* another way than the one before, and the call returned.
C11_Witness ==
    /\ tb.pc = "returned" /\ ~tb.result.ok /\ ~tb.aborted
    /\ tb.maxRetries = DefaultMaxRetries
    /\ Cardinality(TBCalls) = 3
    /\ tb.trace[Len(tb.trace)].resp = "badjson"
    /\ \E i \in TBResponses : tb.trace[i].resp = "novalid"

\* --------------------------------------------------------------------- C12
\* C12: the signal is checked at the top of every iteration.  A call entered
\* with the signal already aborted returns the Cancelled error with zero
\* network calls, and no step starts a callOpenAI in an iteration that begins
\* with the signal aborted.
C12_AbortedOnEntry ==
    (tb.pc # "idle" /\ tb.aborted /\ tb.trace = <<>>)
    => /\ tb.pc = "returned"
       /\ tb.result = [ok |-> FALSE, error |-> "Cancelled."]
       /\ TBCalls = {}

C12_NoCallOnceAborted ==
    (Len(tb'.trace) > Len(tb.trace) /\ tb'.trace[Len(tb'.trace)].ev = "call")
    => ~tb'.aborted

C12_SignalCheckedEveryIteration ==
    /\ []C12_AbortedOnEntry
    /\ [][C12_NoCallOnceAborted]_vars

\* The signal was aborted during the back-off after the first attempt: the
\* next iteration returned Cancelled with two attempts unused.
C12_Witness ==
    /\ tb.pc = "returned" /\ tb.aborted
    /\ tb.result.error = "Cancelled."
    /\ tb.maxRetries = DefaultMaxRetries
    /\ Cardinality(TBCalls) = 1
    /\ tb.trace[Len(tb.trace)].ev = "wait"

\* --------------------------------------------------------------------- C13
\* C13: a response is accepted only if its data is an object in which at
\* least one requested id maps to a string; the TranslationSet returned has
\* exactly the requested ids whose value is a string, with those strings
\* (extra keys and non-string values are absent); a response with no such id
\* is a failed attempt: nothing is returned as translations, its error is
\* kept and the loop goes on to the next iteration or ends.
C13_ValidIds(data) ==
    IF data.type = "object"
    THEN { id \in tb.entries : id \in DOMAIN data.props /\ data.props[id].type = "string" }
    ELSE {}

C13_Step ==
    LET new == Appended(tb.trace, tb'.trace) IN
    (tb.pc = "callOpenAI" /\ tb'.data # NoData /\ tb' # tb)
    => LET valid == C13_ValidIds(tb'.data) IN
       /\ new # <<>> /\ new[1].ev = "response"
       /\ (tb'.pc = "returned" /\ tb'.result.ok) <=> valid # {}
       /\ valid # {}
          => /\ DOMAIN tb'.translations = valid
             /\ \A id \in valid : tb'.translations[id] = tb'.data.props[id].text
       /\ valid = {}
          => /\ tb'.translations = <<>>
             /\ tb'.lastError \in {"Invalid response format from OpenAI.",
                                   "No valid translations in response."}
             /\ \/ tb'.pc = "callOpenAI" /\ tb'.attempt = tb.attempt + 1
                \/ tb'.pc = "returned" /\ tb.attempt = tb.maxRetries
                   /\ tb'.result = [ok |-> FALSE, error |-> tb'.lastError]

C13_OnlyRequestedStrings == [][C13_Step]_vars

\* Both ids were requested; the response had a string for one, a number for
\* the other and a string under a key nobody asked for: one id came back.
C13_Witness ==
    /\ tb.pc = "returned" /\ tb.result.ok
    /\ tb.entries = Ids
    /\ tb.data.type = "object"
    /\ ExtraKey \in DOMAIN tb.data.props /\ tb.data.props[ExtraKey].type = "string"
    /\ \E id \in Ids : id \in DOMAIN tb.data.props /\ tb.data.props[id].type = "number"
    /\ Cardinality(DOMAIN tb.translations) = 1

\* --------------------------------------------------------------------- C14
\* The text leaves of the original and of a clone, depth first, and the
\* clones whose children mirrorAutoLayout has not reordered since.
OrigTexts == CollectTextNodes(doc.nodes, doc.original)
CloneTexts(r) == CollectTextNodes(doc.nodes, r.clone)
Unmirrored == { r \in SeqToSet(doc.cloneMap) : Write(r.clone, "children") \notin doc.writes }
Min(a, b) == IF a <= b THEN a ELSE b

\* Each map entry pairs the i-th text leaf of the original with the i-th
\* text leaf of the clone, and no two ids share a handle.
PairedByPosition(r) ==
    /\ \A id \in DOMAIN r.textNodeMap :
          \E i \in 1..Min(Len(OrigTexts), Len(CloneTexts(r))) :
              /\ \E e \in SeqToSet(doc.originalEntries) : e.id = id /\ e.nodeId = OrigTexts[i]
              /\ r.textNodeMap[id] = CloneTexts(r)[i]
    /\ \A id1, id2 \in DOMAIN r.textNodeMap :
          r.textNodeMap[id1] = r.textNodeMap[id2] => id1 = id2

\* C14 (as stated): with N text leaves in the original and N' in the clone,
\* the map has exactly min(N, N') entries, pairing the i-th text leaf of the
\* original with the i-th of the clone.
C14_MapHasMinEntries ==
    \A r \in Unmirrored :
        /\ Cardinality(DOMAIN r.textNodeMap) = Min(Len(OrigTexts), Len(CloneTexts(r)))
        /\ PairedByPosition(r)

\* C14 (amended): the clone has as many text leaves as the original (N' = N);
\* the map has exactly one entry for every scanned unit, that is for every
\* text leaf of the original that is not blank (nor locked), and none for a
\* leaf the scan skipped, so it has min(N, N') entries only if no leaf was
\* skipped; it is a bijection between the unit ids and the clone's text
\* leaves at the positions of the units' nodes.
C14_MapPairsScannedUnits ==
    \A r \in Unmirrored :
        /\ Len(CloneTexts(r)) = Len(OrigTexts)
        /\ DOMAIN r.textNodeMap = EntryIds
        /\ Cardinality(EntryIds) =
              Cardinality({ i \in 1..Len(OrigTexts) : doc.nodes[OrigTexts[i]].characters # "" })
        /\ Cardinality(DOMAIN r.textNodeMap) <= Min(Len(OrigTexts), Len(CloneTexts(r)))
        /\ PairedByPosition(r)

\* A clone of an original with a blank text leaf before a translatable one:
\* two leaves, one entry, which pairs the second leaves.
C14_Witness ==
    \E r \in Unmirrored :
        /\ Len(OrigTexts) = 2 /\ Len(CloneTexts(r)) = 2
        /\ doc.nodes[OrigTexts[1]].characters = ""
        /\ DOMAIN r.textNodeMap = {1}
        /\ r.textNodeMap[1] = CloneTexts(r)[2]

\* ------------------------------------------------------- clone placement
\* SpecPl: duplicateAndPlace's position switch, applied to the languages of
\* a run in order, langIndex = 0, 1, ..., for one original and one choice of
\* the layout settings.
MaxIndex == 4

\* Faulty variant: wrap takes the column for the row
ClonePositionSwapped(original, langIndex, s) ==
    CASE s.layoutMode = "row" ->
           [x |-> original.x + (langIndex + 1) * (original.width + s.gap),
            y |-> original.y]
      [] s.layoutMode = "column" ->
           [x |-> original.x,
            y |-> original.y + (langIndex + 1) * (original.height + s.gap)]
      [] s.layoutMode = "wrap" ->
           LET col == langIndex \div s.wrapColumns
               row == langIndex % s.wrapColumns
           IN [x |-> original.x + (col + 1) * (original.width + s.gap),
               y |-> original.y + row * (original.height + s.gap)]

\* duplicateAndPlace, "Position": langIndex >= 0 and wrapColumns >= 1, so
\* that % and Math.floor(a / b) are the integer remainder and quotient.
ClonePosition(original, langIndex, s) ==
    CASE s.layoutMode = "row" ->
           [x |-> original.x + (langIndex + 1) * (original.width + s.gap),
            y |-> original.y]
      [] s.layoutMode = "column" ->
           [x |-> original.x,
            y |-> original.y + (langIndex + 1) * (original.height + s.gap)]
      [] s.layoutMode = "wrap" ->
           LET col == langIndex % s.wrapColumns
               row == langIndex \div s.wrapColumns
           IN [x |-> original.x + (col + 1) * (original.width + s.gap),
               y |-> original.y + row * (original.height + s.gap)]

Placed(index, pos) == [index |-> index, x |-> pos.x, y |-> pos.y]

\* The selections and settings a run can start from.
PlStart ==
    { [PlIdle EXCEPT !.original = Geometry(x, y, w, h),
                     !.settings = LayoutSettings(m, g, c)] :
        x \in {-5, 0, 7}, y \in {0, 3}, w \in {10, 25}, h \in {8, 20},
        m \in {"row", "column", "wrap"}, g \in {-3, 0, 80}, c \in 1..3 }

\* the loop body of handleStartGenerate: the next language's clone is placed
PlDuplicate ==
    /\ pl.index <= MaxIndex
    /\ pl' = [pl EXCEPT !.index = @ + 1,
                        !.placed = @ \cup { Placed(pl.index,
                                       ClonePosition(pl.original, pl.index, pl.settings)) }]
    /\ UNCHANGED <<uiVars, ctlVars, u2c, c2u, tb, rw, doc, qa, sc, ur, fq>>

\* another start-generate for the same selection: the loop starts over
PlStartGenerate ==
    /\ pl.index > 0
    /\ pl' = [pl EXCEPT !.index = 0]
    /\ UNCHANGED <<uiVars, ctlVars, u2c, c2u, tb, rw, doc, qa, sc, ur, fq>>

InitPl ==
    /\ PipelineInit
    /\ tb = TBIdle
    /\ rw = RWIdle
    /\ doc = DocIdle
    /\ pl \in PlStart
    /\ qa = QAIdle
    /\ sc = ScIdle
    /\ ur = URIdle
    /\ fq = FQIdle

NextPl == PlDuplicate \/ PlStartGenerate

SpecPl == InitPl /\ [][NextPl]_vars

\* --------------------------------------------------------------------- C15
\* C15: the position of a clone is a function of its index, the original's
\* geometry, the gap and the wrap columns alone: in row mode
\* x = ox + (index+1)(width+gap) and y = oy; in column mode x = ox and
\* y = oy + (index+1)(height+gap); in wrap mode, with col = index mod columns
\* and row = floor(index / columns), x = ox + (col+1)(width+gap) and
\* y = oy + row(height+gap).
C15_Placement ==
    LET o == pl.original
        g == pl.settings.gap
        n == pl.settings.wrapColumns
    IN /\ \A p \in pl.placed :
            /\ pl.settings.layoutMode = "row" =>
                  p.x = o.x + (p.index + 1) * (o.width + g) /\ p.y = o.y
            /\ pl.settings.layoutMode = "column" =>
                  p.x = o.x /\ p.y = o.y + (p.index + 1) * (o.height + g)
            /\ pl.settings.layoutMode = "wrap" =>
                  \E col \in 0..(n - 1), row \in 0..p.index :
                      /\ p.index = row * n + col
                      /\ p.x = o.x + (col + 1) * (o.width + g)
                      /\ p.y = o.y + row * (o.height + g)
       /\ \A p, q \in pl.placed : p.index = q.index => p = q

\* A second run has placed the fourth clone again, in wrap mode with two
\* columns and the default gap: second column, second row.
C15_Witness ==
    /\ pl.original = Geometry(7, 3, 25, 20)
    /\ pl.settings = LayoutSettings("wrap", 80, 2)
    /\ Cardinality(pl.placed) = MaxIndex + 1
    /\ pl.index = 4
    /\ Placed(3, [x |-> 217, y |-> 103]) \in pl.placed

\* --------------------------------------------------------------- layout QA
\* SpecQA: for one language's clone, applyTranslations followed by runQA,
\* and runQA called once more with the same arguments.  Lengths are in
\* tenths of a pixel, so that the 0.5px tolerance is 5 and 4px is 40.
MaxReports == 2

\* TextEntry: the baseline fields runQA reads
Entry(textAutoResize, width, height, lineHeight, fontSize) ==
    [textAutoResize |-> textAutoResize, width |-> width, height |-> height,
     lineHeight |-> lineHeight, fontSize |-> fontSize]

\* A mapped TextNode.  needed is the height Figma gives the node at this
\* width whenever its height floats; breaks is what checkParentOverflow
\* finds for its bounding box.
Handle(id, textAutoResize, width, height, needed, breaks) ==
    [id |-> id, attached |-> TRUE, textAutoResize |-> textAutoResize,
     width |-> width, height |-> height, needed |-> needed, breaks |-> breaks]

\* Figma: node.textAutoResize = mode, and node.resize(width, height)
SetTextAutoResize(h, mode) ==
    IF mode = "HEIGHT"
    THEN [h EXCEPT !.textAutoResize = mode, !.height = h.needed]
    ELSE [h EXCEPT !.textAutoResize = mode]
Resize(h, width, height) == [h EXCEPT !.width = width, !.height = height]

\* Faulty variant: the mode is restored but not the size
MeasureAndRestoreModeOnly(textNode) ==
    IF textNode.textAutoResize = "HEIGHT"
    THEN [neededHeight |-> textNode.height, node |-> textNode]
    ELSE LET floating == SetTextAutoResize(textNode, "HEIGHT")
         IN [neededHeight |-> floating.height,
             node |-> SetTextAutoResize(floating, textNode.textAutoResize)]

\* measureNeededHeight: the height read, and the node as it is left
MeasureAndRestore(textNode) ==
    LET origWidth  == textNode.width
        origHeight == textNode.height
        origResize == textNode.textAutoResize
    IN IF origResize = "HEIGHT"
       THEN [neededHeight |-> textNode.height, node |-> textNode]
       ELSE LET floating == SetTextAutoResize(textNode, "HEIGHT")
                restored == SetTextAutoResize(floating, origResize)
            IN [neededHeight |-> floating.height,
                node |-> IF origResize \in {"NONE", "TRUNCATE"}
                         THEN Resize(restored, origWidth, origHeight)
                         ELSE restored]

NoNode == 0
Issue(severity, type, nodeId, message) ==
    [severity |-> severity, type |-> type, nodeId |-> nodeId, message |-> message]

Max(a, b) == IF a >= b THEN a ELSE b

\* ten times the line height runQA works with: 1.4 x fontSize unless the
\* baseline has a positive one
LineHeight10(original) ==
    IF original.lineHeight > 0 THEN 10 * original.lineHeight
                               ELSE 14 * original.fontSize

\* Faulty variant: no tolerance
OverflowsExactly(neededHeight, fixedHeight) == neededHeight > fixedHeight

\* neededHeight > fixedHeight + 0.5
Overflows(neededHeight, fixedHeight) == neededHeight > fixedHeight + 5

\* Faulty variant: the 4px floor is left out
WrappedNoFloor(heightDelta, lineHeight10) == 100 * heightDelta > 8 * lineHeight10

\* heightDelta > Math.max(lineHeight * 0.8, 4), both sides times 100
Wrapped(heightDelta, lineHeight10) ==
    100 * heightDelta > Max(8 * lineHeight10, 4000)

\* Math.max(1, Math.round(heightDelta / lineHeight)); Math.round(x) is
\* floor(x + 0.5)
ExtraLines(heightDelta, lineHeight10) ==
    Max(1, (20 * heightDelta + lineHeight10) \div (2 * lineHeight10))

\* extraLines === 1 ? 'New line' : `+${extraLines} lines`
WrapMessage(extraLines) ==
    IF extraLines = 1 THEN <<"New line">> ELSE <<"+", extraLines, " lines">>

\* Faulty variant: a unit with a line-wrap issue is not checked against its
\* containers
WrapOrContainer(textNode, original) ==
    LET heightDelta == textNode.height - original.height
        lineHeight10 == LineHeight10(original)
    IN IF textNode.textAutoResize = "HEIGHT" /\ Wrapped(heightDelta, lineHeight10)
       THEN << Issue("amber", "text-overflow", textNode.id,
                     WrapMessage(ExtraLines(heightDelta, lineHeight10))) >>
       ELSE IF textNode.breaks
            THEN << Issue("red", "container-overflow", textNode.id, <<"Breaks container">>) >>
            ELSE <<>>

\* Checks 2 and 3 of the loop body
WrapAndContainer(textNode, original) ==
    LET heightDelta == textNode.height - original.height
        lineHeight10 == LineHeight10(original)
        wrap == IF textNode.textAutoResize = "HEIGHT" /\ Wrapped(heightDelta, lineHeight10)
                THEN << Issue("amber", "text-overflow", textNode.id,
                              WrapMessage(ExtraLines(heightDelta, lineHeight10))) >>
                ELSE <<>>
        container == IF textNode.breaks
                     THEN << Issue("red", "container-overflow", textNode.id,
                                   <<"Breaks container">>) >>
                     ELSE <<>>
    IN wrap \o container

\* The loop body of runQA for one map entry: the node as it is left and the
\* issues pushed, each with one issueEntryIds.add(id).
CheckUnit(textNode, original) ==
    IF textNode.textAutoResize = "NONE"
    THEN LET m == MeasureAndRestore(textNode)
             fixedHeight == m.node.height
         IN IF Overflows(m.neededHeight, fixedHeight)
            THEN [node |-> m.node,
                  issues |-> << Issue("red", "text-overflow", textNode.id, <<"Overflow">>) >>]
            ELSE [node |-> m.node, issues |-> WrapAndContainer(m.node, original)]
    ELSE [node |-> textNode, issues |-> WrapAndContainer(textNode, original)]

\* Set.add
SetAdd(seq, x) == IF x \in SeqToSet(seq) THEN seq ELSE Append(seq, x)

\* for (const [id, textNode] of textNodeMap), in the order the map was
\* filled: t0, t1, ...
RECURSIVE QALoop(_, _, _, _)
QALoop(id, textNodeMap, originalMap, acc) ==
    IF id \notin DOMAIN textNodeMap THEN acc
    ELSE IF ~textNodeMap[id].attached \/ id \notin DOMAIN originalMap
    THEN QALoop(id + 1, textNodeMap, originalMap, acc)
    ELSE LET u == CheckUnit(textNodeMap[id], originalMap[id])
         IN QALoop(id + 1, textNodeMap, originalMap,
                   [handles |-> [acc.handles EXCEPT ![id] = u.node],
                    issues |-> acc.issues \o u.issues,
                    issueEntryIds |-> IF u.issues = <<>> THEN acc.issueEntryIds
                                      ELSE SetAdd(acc.issueEntryIds, id)])

\* Check 4: one issue per font error, without a node
FontIssues(fontErrors) ==
    [i \in 1..Len(fontErrors) |-> Issue("amber", "font-load", NoNode, <<"Missing font">>)]

CountOf(issues, severity) ==
    Cardinality({ i \in 1..Len(issues) : issues[i].severity = severity })

\* Faulty variant: amber is looked at first
StatusAmberFirst(redCount, amberCount) ==
    IF amberCount > 0 THEN "amber" ELSE IF redCount > 0 THEN "red" ELSE "green"

StatusOf(redCount, amberCount) ==
    IF redCount > 0 THEN "red" ELSE IF amberCount > 0 THEN "amber" ELSE "green"

\* runQA: the report, and the handles as the measurements leave them
QAReport(textNodeMap, originalEntries, fontErrors) ==
    LET loop == QALoop(1, textNodeMap, originalEntries,
                       [handles |-> textNodeMap, issues |-> <<>>, issueEntryIds |-> <<>>])
        issues == loop.issues \o FontIssues(fontErrors)
        redCount == CountOf(issues, "red")
        amberCount == CountOf(issues, "amber")
    IN [handles |-> loop.handles,
        report |-> [status |-> StatusOf(redCount, amberCount),
                    issues |-> issues,
                    issueEntryIds |-> loop.issueEntryIds,
                    amberIssues |-> amberCount,
                    redIssues |-> redCount]]

\* applyTranslations as the layout sees it, for the ids the translations
\* have: a unit whose font loads gets its text and Figma reflows it (a
\* floating height follows the text, a fixed one stays); a unit whose font
\* fails keeps text and size and its name goes to fontErrors.
RECURSIVE FontErrorsFrom(_, _, _)
FontErrorsFrom(id, textNodeMap, failed) ==
    IF id \notin DOMAIN textNodeMap THEN <<>>
    ELSE (IF id \in failed THEN <<textNodeMap[id].id>> ELSE <<>>)
         \o FontErrorsFrom(id + 1, textNodeMap, failed)

\* Faulty variant: a unit whose font fails is counted as applied
ReflowedCountingFailed(textNodeMap, translated, texts, failed) ==
    [handles |->
        [id \in DOMAIN textNodeMap |->
            IF id \notin translated \/ id \in failed THEN textNodeMap[id]
            ELSE [textNodeMap[id] EXCEPT
                    !.needed = texts[id].needed,
                    !.breaks = texts[id].breaks,
                    !.height = IF textNodeMap[id].textAutoResize \in {"HEIGHT", "WIDTH_AND_HEIGHT"}
                               THEN texts[id].needed ELSE @]],
     applied |-> Cardinality(translated \cap DOMAIN textNodeMap),
     fontErrors |-> FontErrorsFrom(1, textNodeMap, failed)]

Reflowed(textNodeMap, translated, texts, failed) ==
    [handles |->
        [id \in DOMAIN textNodeMap |->
            IF id \notin translated \/ id \in failed THEN textNodeMap[id]
            ELSE [textNodeMap[id] EXCEPT
                    !.needed = texts[id].needed,
                    !.breaks = texts[id].breaks,
                    !.height = IF textNodeMap[id].textAutoResize \in {"HEIGHT", "WIDTH_AND_HEIGHT"}
                               THEN texts[id].needed ELSE @]],
     applied |-> Cardinality((translated \cap DOMAIN textNodeMap) \ failed),
     fontErrors |-> FontErrorsFrom(1, textNodeMap, failed)]

\* The heights a translated text can need, by mode of its box.
NeededChoices(mode) ==
    CASE mode = "NONE"             -> {403, 405, 406, 410}
      [] mode = "HEIGHT"           -> {240, 241, 357, 360, 361, 500}
      [] mode = "WIDTH_AND_HEIGHT" -> {200, 500}
      [] mode = "TRUNCATE"         -> {400, 410}

EntryChoices ==
    UNION { { Entry(m, 1000, IF m \in {"NONE", "TRUNCATE"} THEN 400 ELSE 200, lh, 140) :
                lh \in IF m = "HEIGHT" THEN {0, 40, 200} ELSE {200} } :
            m \in {"NONE", "HEIGHT", "WIDTH_AND_HEIGHT", "TRUNCATE"} }

\* scan and duplicate: every handle is a copy of its unit's node
QAStart ==
    { [QAIdle EXCEPT
         !.entries = e,
         !.handles = [id \in Ids |-> Handle(10 + id, e[id].textAutoResize, e[id].width,
                                            e[id].height, e[id].height, FALSE)]] :
        e \in [Ids -> EntryChoices] }

\* What the texts written to the units of `written` can need and break; a
\* unit that is not written keeps what it has.
RECURSIVE TextsFor(_, _)
TextsFor(n, written) ==
    IF n = 0 THEN { <<>> }
    ELSE { Append(t, c) :
             t \in TextsFor(n - 1, written),
             c \in IF n \in written
                   THEN [needed : NeededChoices(qa.handles[n].textAutoResize), breaks : BOOLEAN]
                   ELSE { [needed |-> qa.handles[n].needed, breaks |-> qa.handles[n].breaks] } }

\* The statuses a handler sends for its language: translations-ready sends
\* applying, qa and done, apply-rewrites applying and done.
StatusesSent(first) ==
    IF first THEN <<"applying", "qa", "done">> ELSE <<"applying", "done">>

\* handleTranslationsReady / handleApplyRewrites: applyTranslations, then
\* runQA with the fontErrors it returned; a rewrite has translations only
\* for ids of the report's issueEntryIds
QAApplyAndRun(translated, texts, failed) ==
    /\ Len(qa.reports) < MaxReports
    /\ qa.reports # <<>> =>
          translated \subseteq SeqToSet(qa.reports[Len(qa.reports)].issueEntryIds)
    /\ failed \subseteq translated
    /\ LET a == Reflowed(qa.handles, translated, texts, failed)
           r == QAReport(a.handles, qa.entries, a.fontErrors)
       IN qa' = [qa EXCEPT !.received = a.handles,
                           !.handles = r.handles,
                           !.fontErrors = a.fontErrors,
                           !.reports = Append(@, r.report),
                           !.reruns = 0,
                           !.translated = translated,
                           !.failed = failed,
                           !.applied = a.applied,
                           !.sent = StatusesSent(qa.reports = <<>>)]
    /\ UNCHANGED <<uiVars, ctlVars, u2c, c2u, tb, rw, doc, pl, sc, ur, fq>>

\* runQA once more, with the arguments of the last call
QARunAgain ==
    /\ qa.reports # <<>>
    /\ Len(qa.reports) < MaxReports
    /\ LET r == QAReport(qa.handles, qa.entries, qa.fontErrors)
       IN qa' = [qa EXCEPT !.received = qa.handles,
                           !.handles = r.handles,
                           !.reports = Append(@, r.report),
                           !.reruns = @ + 1]
    /\ UNCHANGED <<uiVars, ctlVars, u2c, c2u, tb, rw, doc, pl, sc, ur, fq>>

InitQA ==
    /\ PipelineInit
    /\ tb = TBIdle
    /\ rw = RWIdle
    /\ doc = DocIdle
    /\ pl = PlIdle
    /\ qa \in QAStart
    /\ sc = ScIdle
    /\ ur = URIdle
    /\ fq = FQIdle

NextQA ==
    \/ \E translated \in SUBSET Ids : \E failed \in SUBSET translated :
          \E texts \in TextsFor(NumIds, translated \ failed) :
              QAApplyAndRun(translated, texts, failed)
    \/ QARunAgain

SpecQA == InitQA /\ [][NextQA]_vars

LastReport == qa.reports[Len(qa.reports)]
IssuesOf(report, nodeId, severity, type) ==
    { report.issues[i] : i \in { j \in 1..Len(report.issues) :
          /\ report.issues[j].nodeId = nodeId
          /\ report.issues[j].severity = severity
          /\ report.issues[j].type = type } }

\* --------------------------------------------------------------------- C16
\* C16: for a mapped unit whose auto-resize mode is NONE, the report has a
\* red text-overflow issue 'Overflow' for its node if and only if the height
\* its text needs exceeds the fixed height by more than 0.5px.
C16_FixedBoxOverflow ==
    qa.reports # <<>> =>
        \A id \in DOMAIN qa.handles :
            LET h == qa.handles[id]
                overflow == IssuesOf(LastReport, h.id, "red", "text-overflow")
            IN h.textAutoResize = "NONE" =>
                  /\ overflow # {} <=> h.needed - h.height > 5
                  /\ \A i \in overflow : i.message = <<"Overflow">>

\* Two fixed boxes of 40px: the text needing 41px is reported, the one
\* needing 40.3px is not.
C16_Witness ==
    /\ Len(qa.reports) = 1
    /\ \A id \in DOMAIN qa.handles :
          qa.handles[id].textAutoResize = "NONE" /\ qa.handles[id].height = 400
          /\ ~qa.handles[id].breaks
    /\ qa.handles[1].needed = 410
    /\ qa.handles[2].needed = 403
    /\ LastReport.issues =
          << Issue("red", "text-overflow", qa.handles[1].id, <<"Overflow">>) >>
    /\ LastReport.issueEntryIds = <<1>>

\* --------------------------------------------------------------------- C17
\* C17: for a mapped unit in HEIGHT mode the report has an amber
\* text-overflow issue for its node if and only if its height exceeds the
\* baseline height by more than max(0.8 x lineHeight, 4px); the issue counts
\* n = max(1, round(delta / lineHeight)) extra lines and its message is
\* 'New line' for n = 1 and '+n lines' otherwise; a unit in
\* WIDTH_AND_HEIGHT mode has no such issue.
C17_LineWrap ==
    qa.reports # <<>> =>
        \A id \in DOMAIN qa.handles :
            LET h == qa.handles[id]
                amber == IssuesOf(LastReport, h.id, "amber", "text-overflow")
                delta == h.height - qa.entries[id].height
                lh10 == LineHeight10(qa.entries[id])
            IN /\ h.textAutoResize = "HEIGHT" =>
                    /\ amber # {} <=> (100 * delta > 8 * lh10 /\ delta > 40)
                    /\ \A i \in amber :
                          LET n == IF i.message = <<"New line">> THEN 1 ELSE i.message[2]
                          IN /\ n >= 1
                             /\ i.message = IF n = 1 THEN <<"New line">>
                                                     ELSE <<"+", n, " lines">>
                             /\ IF 20 * delta < 3 * lh10 THEN n = 1
                                ELSE /\ (2 * n - 1) * lh10 <= 20 * delta
                                     /\ 20 * delta < (2 * n + 1) * lh10
               /\ h.textAutoResize = "WIDTH_AND_HEIGHT" => amber = {}

\* Two floating boxes of 20px: with a 20px line the text grown to 50px is
\* '+2 lines'; with a 4px line the text grown to 24.1px is 'New line'.
C17_Witness ==
    /\ Len(qa.reports) = 1
    /\ \A id \in DOMAIN qa.handles :
          qa.handles[id].textAutoResize = "HEIGHT" /\ qa.entries[id].height = 200
          /\ ~qa.handles[id].breaks
    /\ qa.entries[1].lineHeight = 200 /\ qa.handles[1].height = 500
    /\ qa.entries[2].lineHeight = 40 /\ qa.handles[2].height = 241
    /\ LastReport.issues =
          << Issue("amber", "text-overflow", qa.handles[1].id, <<"+", 2, " lines">>),
             Issue("amber", "text-overflow", qa.handles[2].id, <<"New line">>) >>

\* --------------------------------------------------------------------- C18
\* C18: the status of every report is red if any of its issues is red, else
\* amber if any is amber, else green; redIssues and amberIssues are the
\* numbers of its issues of that severity.
C18_StatusIsWorstSeverity ==
    \A k \in 1..Len(qa.reports) :
        LET r == qa.reports[k]
            severities == { r.issues[i].severity : i \in 1..Len(r.issues) }
            among(severity) == { i \in 1..Len(r.issues) : r.issues[i].severity = severity }
        IN /\ severities \subseteq {"red", "amber"}
           /\ "red" \in severities => r.status = "red"
           /\ ("red" \notin severities /\ "amber" \in severities) => r.status = "amber"
           /\ severities = {} => r.status = "green"
           /\ r.redIssues = Cardinality(among("red"))
           /\ r.amberIssues = Cardinality(among("amber"))

\* A report with one red issue and two amber ones, a missing font among
\* them, is red.
C18_Witness ==
    /\ qa.reports # <<>>
    /\ LastReport.status = "red"
    /\ LastReport.redIssues = 1
    /\ LastReport.amberIssues = 2
    /\ Len(LastReport.issues) = 3
    /\ LastReport.issues[3].type = "font-load"

\* --------------------------------------------------------------------- C19
\* C19 (as stated): issueEntryIds holds, once each, exactly the ids of the
\* units that triggered an issue of any category, font-load included.
C19_IssueEntryIdsCoverEveryIssue ==
    qa.reports # <<>> =>
        LET ids == LastReport.issueEntryIds
            triggered == { id \in DOMAIN qa.handles :
                             \/ \E i \in 1..Len(LastReport.issues) :
                                   LastReport.issues[i].nodeId = qa.handles[id].id
                             \/ qa.handles[id].id \in SeqToSet(qa.fontErrors) }
        IN /\ SeqToSet(ids) = triggered
           /\ Cardinality(SeqToSet(ids)) = Len(ids)

\* --------------------------------------------------------------------- C20
\* C20: runQA leaves every mapped handle with the auto-resize mode, width
\* and height it received it with, and a second runQA with the same
\* arguments returns the report of the first.
C20_Idempotent ==
    /\ \A id \in DOMAIN qa.received :
          /\ qa.handles[id].textAutoResize = qa.received[id].textAutoResize
          /\ qa.handles[id].width = qa.received[id].width
          /\ qa.handles[id].height = qa.received[id].height
    /\ \A k \in 2..Len(qa.reports) :
          k > Len(qa.reports) - qa.reruns => qa.reports[k] = qa.reports[k - 1]

\* runQA has run twice on a fixed 40px box whose text needs 41px, measured
\* both times.
C20_Witness ==
    /\ qa.reruns = 1
    /\ Len(qa.reports) = 2
    /\ qa.handles[1].textAutoResize = "NONE"
    /\ qa.handles[1].height = 400 /\ qa.handles[1].needed = 410
    /\ qa.reports[1].status = "red"
    /\ qa.reports[2].issueEntryIds = <<1>>

\* --------------------------------------------------------------------- C28
\* The container-overflow issues the report has for a node.
ContainerIssues(h) == IssuesOf(LastReport, h.id, "red", "container-overflow")

\* C28 (as stated): the container-overflow check is applied to every mapped
\* unit, whatever its auto-resize mode and whatever the fixed-box and
\* line-wrap checks found: the report has a container-overflow issue for
\* every unit that breaks a container, and for no other.
C28_ContainerAlwaysChecked ==
    qa.reports # <<>> =>
        \A id \in DOMAIN qa.handles :
            ContainerIssues(qa.handles[id]) # {} <=> qa.handles[id].breaks

\* C28 (amended): the container-overflow check is applied to every mapped
\* unit, whatever its auto-resize mode and whatever the line-wrap check
\* found, except a NONE-mode unit for which the fixed-box check reported
\* 'Overflow': that unit gets no further check.
C28_ContainerCheckedUnlessOverflow ==
    qa.reports # <<>> =>
        \A id \in DOMAIN qa.handles :
            LET h == qa.handles[id]
                overflow == IssuesOf(LastReport, h.id, "red", "text-overflow")
            IN /\ overflow # {} => h.textAutoResize = "NONE" /\ ContainerIssues(h) = {}
               /\ overflow = {} => (ContainerIssues(h) # {} <=> h.breaks)
               /\ \A i \in ContainerIssues(h) : i.message = <<"Breaks container">>

\* A floating box that wrapped and breaks its container carries both the
\* amber and the red issue; a fixed box that fits and breaks its container
\* carries the red one.
C28_Witness ==
    /\ Len(qa.reports) = 1
    /\ qa.handles[1].textAutoResize = "HEIGHT" /\ qa.handles[1].breaks
    /\ qa.handles[2].textAutoResize = "NONE" /\ qa.handles[2].breaks
    /\ Len(LastReport.issues) = 3
    /\ LastReport.issues[1].severity = "amber" /\ LastReport.issues[1].nodeId = qa.handles[1].id
    /\ LastReport.issues[2] =
          Issue("red", "container-overflow", qa.handles[1].id, <<"Breaks container">>)
    /\ LastReport.issues[3] =
          Issue("red", "container-overflow", qa.handles[2].id, <<"Breaks container">>)
    /\ LastReport.issueEntryIds = <<1, 2>>

\* --------------------------------------------------------------------- C22
\* C22: the rewrite-shorter path takes a done language through applying and
\* qa back to done: the status leaves done only for applying and only in the
\* step of a user's rewrite action, leaves applying for qa unless the shorten
\* call failed, and leaves qa for done.
C22_RewriteStatusStep ==
    rw'.status # rw.status =>
        \/ rw.status = "done" /\ rw'.status = "applying" /\ rw'.started = rw.started + 1
        \/ rw.status = "applying" /\ rw'.status = "qa"
        \/ rw.status = "applying" /\ rw'.status = "done" /\ rw'.calls # rw.calls
        \/ rw.status = "qa" /\ rw'.status = "done"

C22_RewriteStatusLaw == [][C22_RewriteStatusStep]_vars

\* --------------------------------------------------------------------- C24
\* The calls added and the calls ended by a step.
CallsStarted == rw'.calls \ rw.calls
CallsEnded == rw.calls \ rw'.calls
NotifiesSent == { m \in SeqToSet(Appended(rw.u2c, rw'.u2c)) : m.type = "notify" }
RewritesSent == { m \in SeqToSet(Appended(rw.u2c, rw'.u2c)) : m.type = "apply-rewrites" }

\* C24: a rewrite-shorter call is made once: the step that ends a call
\* without a result starts no other call, leaves the stored TranslationSet
\* and the clone's texts as they are, sends no apply-rewrites, sends the
\* notification of the failure, and puts the language back to done; and no
\* step makes a translated unit of the clone show the original text again.
C24_FailedRewriteStep ==
    /\ CallsEnded # {} /\ RewritesSent = {} =>
          /\ CallsStarted = {} /\ rw'.started = rw.started
          /\ rw'.store = rw.store
          /\ rw'.clone = rw.clone
          /\ \E c \in CallsEnded : NotifiesSent = {MsgNotify(c)}
          /\ rw'.status = "done"
    /\ \A id \in Ids : rw.clone[id] # -1 => rw'.clone[id] # -1
    /\ DOMAIN rw.store \subseteq DOMAIN rw'.store

C24_FailedRewriteLaw == [][C24_FailedRewriteStep]_vars

\* Both calls of a behaviour failed and the user was notified twice; store
\* and clone are the ones generation left.
C24_Witness ==
    /\ rw.started = MaxRewrites /\ rw.calls = {} /\ rw.notified = MaxRewrites
    /\ rw.status = "done"
    /\ \A id \in DOMAIN rw.store : rw.store[id] = 0 /\ rw.clone[id] = 0

\* --------------------------------------------------------------------- C29
\* C29 (as stated): the ids a rewrite-shorter call submits are exactly the
\* issueEntryIds of the language's current QA report, each with the
\* translation that is stored for it.
C29_SubmittedAllIssuesStep ==
    \A c \in CallsStarted :
        /\ c.entries = rw.issues
        /\ c.entries \subseteq DOMAIN c.storedTranslations

C29_SubmittedStep ==
    \A c \in CallsStarted :
        /\ c.entries = { id \in rw.issues : id \in DOMAIN rw.store }
        /\ c.entries # {}
        /\ \A id \in c.entries : c.storedTranslations[id] = rw.store[id]

C30_OneApplyPerLanguage == Cardinality(rw.conts) <= 1

\* --------------------------------------------------------------------- C26
\* The languages whose translations-ready was the last message handled.
MainPassOnly == { l \in Langs : doc.received[l].type = "translations-ready" }

\* C26 (as stated): when the accepted response lacks some ids, the language
\* still goes applying, qa, done; a unit whose id is missing is not written
\* and keeps the text of the original; every unit whose id is present and
\* mapped shows its translation.
C26_PartialResponseAllWritten ==
    \A l \in MainPassOnly :
        LET map == CloneRecord(doc, l).textNodeMap
            translations == doc.received[l].translations
        IN /\ doc.sent[l] = <<"applying", "qa", "done">>
           /\ \A id \in DOMAIN map \ DOMAIN translations :
                 /\ doc.nodes[map[id]].characters = "source"
                 /\ Write(map[id], "characters") \notin doc.writes
           /\ \A id \in DOMAIN map \cap DOMAIN translations :
                 doc.nodes[map[id]].characters = translations[id]

\* C26 (amended): as above, but a unit whose id is present and mapped shows
\* its translation only if its font loaded or a fallback was applied;
\* otherwise it is not written either.
C26_PartialResponse ==
    \A l \in MainPassOnly :
        LET map == CloneRecord(doc, l).textNodeMap
            translations == doc.received[l].translations
            fontErrors == doc.received[l].fontErrors
        IN /\ doc.sent[l] = <<"applying", "qa", "done">>
           /\ \A id \in (DOMAIN map \ DOMAIN translations) \cup fontErrors :
                 /\ doc.nodes[map[id]].characters = "source"
                 /\ Write(map[id], "characters") \notin doc.writes
           /\ \A id \in (DOMAIN map \cap DOMAIN translations) \ fontErrors :
                 /\ doc.nodes[map[id]].characters = translations[id]
                 /\ Write(map[id], "characters") \in doc.writes

\* A clone of two units got a response with the first id only: the first
\* handle shows the translation, the second the text of the original.
C26_Witness ==
    \E l \in MainPassOnly :
        LET map == CloneRecord(doc, l).textNodeMap
        IN /\ Cardinality(DOMAIN map) = 2
           /\ \E id \in DOMAIN map :
                 /\ DOMAIN doc.received[l].translations = {id}
                 /\ doc.received[l].fontErrors = {}
                 /\ doc.nodes[map[id]].characters = "translated"
                 /\ \A other \in DOMAIN map \ {id} :
                       doc.nodes[map[other]].characters = "source"
           /\ doc.sent[l] = <<"applying", "qa", "done">>

\* --------------------------------------------------------------------- C27
\* The controller has processed the cancel of run r: the user cancelled the
\* run and the cancel message has left the controller's queue.
CancelProcessed(r) ==
    /\ aborted[r]
    /\ \A i \in 1..Len(u2c) : ~(u2c[i].type = "cancel" /\ u2c[i].run = r)

\* The clones a step creates for run r, the request-translation messages it
\* emits for run r.
ClonesCreated(r) == { l \in Langs : cloneMap'[l] = r /\ cloneMap[l] # r }
RequestsEmitted(r) ==
    { m \in SeqToSet(Appended(c2u, c2u')) : m.type = "request-translation" /\ m.run = r }

\* C27: once the controller has processed the cancel of a run, that run
\* creates no further clone and emits no further request-translation,
\* whatever messages the controller processes afterwards.
C27_NoWorkAfterCancelStep ==
    \A r \in Runs :
        CancelProcessed(r) => ClonesCreated(r) = {} /\ RequestsEmitted(r) = {}

C27_NoWorkAfterCancelLaw == [][C27_NoWorkAfterCancelStep]_vars

\* ------------------------------------------------- the baseline under rescans
\* The controller and the UI while the user changes the selection: sc holds
\* the Figma selection (0: no single supported node, k: node k), the
\* controller's originalEntries, cloneMap, pendingCount and suspended
\* handlers, the two channels, and the UI's scanResult, generating and
\* pending translateBatch calls.  Translation always succeeds here, the user
\* starts MaxScRuns runs, never cancels and asks for no rewrite.  Entries are
\* named by the node whose scan made them, 0 for the empty list.  runs and
\* log are records of what happened: runs[r] is the state the r-th
\* start-generate found on arrival, log has an element for every clone made,
\* message sent and QA run, with the run it belongs to and the entries it
\* used.
NumNodes  == 3
MaxMoves  == 2
MaxScRuns == 1

Nodes == 1..NumNodes

\* scanTextNodes(node).entries.length: node 3 has no translatable text.
UnitCount(k) == CASE k = 1 -> 1 [] k = 2 -> 2 [] OTHER -> 0

\* scanTextNodes(node).entries
Entries(k) == IF UnitCount(k) = 0 THEN 0 ELSE k

ScMsg(type) ==
    [type |-> type, lang |-> 0, status |-> "", entries |-> 0, node |-> 0, run |-> 0,
     labels |-> FALSE]
ScProgress(l, st) == [ScMsg("language-progress") EXCEPT !.lang = l, !.status = st]

NoClone == [run |-> 0, node |-> 0, entries |-> 0]

ScCont(h, pc, lang, entry, labels) ==
    [h |-> h, pc |-> pc, lang |-> lang, entry |-> entry, labels |-> labels]

\* send() of the controller, postMessage of the UI, and the record of a use.
ScSend(s, msgs) == [s EXCEPT !.c2u = s.c2u \o msgs]
ScPost(s, msgs) == [s EXCEPT !.u2c = s.u2c \o msgs]
ScLog(s, what, run, entries) ==
    [s EXCEPT !.log = s.log \cup {[what |-> what, run |-> run, entries |-> entries]}]
ScPop(s) == [s EXCEPT !.u2c = Tail(s.u2c)]
ScTake(s) == [s EXCEPT !.c2u = Tail(s.c2u)]

\* performScan
PerformScan(s) ==
    IF s.selection = 0
    THEN ScSend(s, <<ScMsg("scan-error")>>)
    ELSE ScSend([s EXCEPT !.originalEntries = Entries(s.selection)],
                <<[ScMsg("scan-result") EXCEPT !.node = s.selection]>>)

ScCtlReceives(type) == sc.u2c # <<>> /\ Head(sc.u2c).type = type
ScUIReceives(type) == sc.c2u # <<>> /\ Head(sc.c2u).type = type

\* figma.on('selectionchange'): the user selects something else.
SelectionChange(k) ==
    /\ sc.moves < MaxMoves
    /\ k # sc.selection
    /\ sc' = ScSend([sc EXCEPT !.selection = k, !.moves = @ + 1],
                    <<ScMsg("selection-changed")>>)
    /\ UNCHANGED <<uiVars, ctlVars, u2c, c2u, tb, rw, doc, pl, qa, ur, fq>>

\* case 'init', up to `await loadSettings()`.
ScCtlInit ==
    /\ ScCtlReceives("init")
    /\ sc' = [ScPop(sc) EXCEPT !.conts = @ \cup {ScCont("init", "loadSettings", 0, NoClone, FALSE)}]
    /\ UNCHANGED <<uiVars, ctlVars, u2c, c2u, tb, rw, doc, pl, qa, ur, fq>>

\* case 'init' resumes: init-complete, performScan.
ScCtlResumeInit(c) ==
    /\ c \in sc.conts /\ c.h = "init"
    /\ sc' = PerformScan(ScSend([sc EXCEPT !.conts = @ \ {c}], <<ScMsg("init-complete")>>))
    /\ UNCHANGED <<uiVars, ctlVars, u2c, c2u, tb, rw, doc, pl, qa, ur, fq>>

\* case 'scan-selection'
ScCtlScanSelection ==
    /\ ScCtlReceives("scan-selection")
    /\ sc' = PerformScan(ScPop(sc))
    /\ UNCHANGED <<uiVars, ctlVars, u2c, c2u, tb, rw, doc, pl, qa, ur, fq>>

\* case 'start-generate', up to `await saveSettings(incoming)`.
ScCtlStartGenerate ==
    /\ ScCtlReceives("start-generate")
    /\ LET run == Len(sc.runs) + 1
           s == [ScPop(sc) EXCEPT
                    !.cloneMap = [l \in Langs |-> NoClone],
                    !.runs = Append(@, [selected |-> sc.selection # 0,
                                        entries |-> sc.originalEntries])]
       IN sc' = IF sc.selection = 0
                THEN ScLog(ScSend(s, <<ScMsg("error")>>), "error", run, 0)
                ELSE [s EXCEPT !.conts = @ \cup
                         {ScCont("start-generate", "saveSettings", 0,
                                 [run |-> run, node |-> sc.selection, entries |-> 0],
                                 Head(sc.u2c).labels)}]
    /\ UNCHANGED <<uiVars, ctlVars, u2c, c2u, tb, rw, doc, pl, qa, ur, fq>>

\* The duplicate loop and the request loop of start-generate.
ScDuplicateMsgs == [i \in 1..NumLangs |-> ScProgress(i, "duplicating")]
ScRequestMsgs(run, entries) ==
    [i \in 1..(2 * NumLangs) |->
        IF i % 2 = 1 THEN ScProgress((i + 1) \div 2, "translating")
        ELSE [ScMsg("request-translation") EXCEPT !.lang = i \div 2, !.run = run,
                                                  !.entries = entries]]
ScLoops(s, c) ==
    LET made == [s EXCEPT !.cloneMap = [l \in Langs |->
                                           [c.entry EXCEPT !.entries = s.originalEntries]],
                          !.pendingCount = NumLangs]
        sent == ScSend(made, ScDuplicateMsgs \o ScRequestMsgs(c.entry.run, s.originalEntries))
    IN ScLog(ScLog(ScLog(sent, "clone", c.entry.run, s.originalEntries),
                   "language-progress", c.entry.run, s.originalEntries),
             "request-translation", c.entry.run, s.originalEntries)

\* start-generate resumes after `await saveSettings`.
ScCtlResumeStartSaved(c) ==
    /\ c \in sc.conts /\ c.h = "start-generate" /\ c.pc = "saveSettings"
    /\ LET s == [sc EXCEPT !.conts = @ \ {c}]
       IN sc' = IF sc.originalEntries = 0
                THEN ScLog(ScSend(s, <<ScMsg("error")>>), "error", c.entry.run, 0)
                ELSE IF c.labels
                     THEN [s EXCEPT !.conts = @ \cup {[c EXCEPT !.pc = "loadFont"]}]
                     ELSE ScLoops(s, c)
    /\ UNCHANGED <<uiVars, ctlVars, u2c, c2u, tb, rw, doc, pl, qa, ur, fq>>

\* start-generate resumes after `await figma.loadFontAsync`.
ScCtlResumeStartFont(c) ==
    /\ c \in sc.conts /\ c.h = "start-generate" /\ c.pc = "loadFont"
    /\ sc' = ScLoops([sc EXCEPT !.conts = @ \ {c}], c)
    /\ UNCHANGED <<uiVars, ctlVars, u2c, c2u, tb, rw, doc, pl, qa, ur, fq>>

\* case 'translations-ready', up to `await applyTranslations(...)`.
ScCtlTranslationsReady ==
    /\ ScCtlReceives("translations-ready")
    /\ LET l == Head(sc.u2c).lang
           entry == sc.cloneMap[l]
       IN sc' = IF entry = NoClone
                THEN ScLog(ScSend(ScPop(sc), <<ScMsg("error")>>), "error", 0, 0)
                ELSE [ScSend(ScPop(sc), <<ScProgress(l, "applying")>>)
                        EXCEPT !.conts = @ \cup {ScCont("translations-ready",
                                                        "applyTranslations", l, entry, FALSE)}]
    /\ UNCHANGED <<uiVars, ctlVars, u2c, c2u, tb, rw, doc, pl, qa, ur, fq>>

\* translations-ready resumes: qa, runQA with originalEntries, done,
\* pendingCount--, all-complete.
ScCtlResumeReady(c) ==
    /\ c \in sc.conts /\ c.h = "translations-ready"
    /\ LET s == [sc EXCEPT !.conts = @ \ {c}, !.pendingCount = @ - 1]
           msgs == <<ScProgress(c.lang, "qa"), ScProgress(c.lang, "done")>> \o
                   (IF s.pendingCount <= 0 THEN <<ScMsg("all-complete")>> ELSE <<>>)
       IN sc' = ScLog(ScSend(s, msgs), "qa", c.entry.run, sc.originalEntries)
    /\ UNCHANGED <<uiVars, ctlVars, u2c, c2u, tb, rw, doc, pl, qa, ur, fq>>

\* case 'notify'
ScCtlNotify ==
    /\ ScCtlReceives("notify")
    /\ sc' = ScPop(sc)
    /\ UNCHANGED <<uiVars, ctlVars, u2c, c2u, tb, rw, doc, pl, qa, ur, fq>>

\* UI, case 'init-complete'
ScUIInitComplete ==
    /\ ScUIReceives("init-complete")
    /\ sc' = ScTake(sc)
    /\ UNCHANGED <<uiVars, ctlVars, u2c, c2u, tb, rw, doc, pl, qa, ur, fq>>

\* UI, case 'scan-result' and case 'scan-error'
ScUIScanResult ==
    /\ ScUIReceives("scan-result")
    /\ sc' = [ScTake(sc) EXCEPT !.scanResult = Head(sc.c2u).node, !.uiError = FALSE]
    /\ UNCHANGED <<uiVars, ctlVars, u2c, c2u, tb, rw, doc, pl, qa, ur, fq>>

ScUIScanError ==
    /\ ScUIReceives("scan-error")
    /\ sc' = [ScTake(sc) EXCEPT !.scanResult = 0, !.uiError = TRUE]
    /\ UNCHANGED <<uiVars, ctlVars, u2c, c2u, tb, rw, doc, pl, qa, ur, fq>>

\* UI, case 'selection-changed'
ScUISelectionChanged ==
    /\ ScUIReceives("selection-changed")
    /\ sc' = ScPost(ScTake(sc), <<ScMsg("scan-selection")>>)
    /\ UNCHANGED <<uiVars, ctlVars, u2c, c2u, tb, rw, doc, pl, qa, ur, fq>>

\* The start-generate messages sent so far.
ScStarts ==
    Len(sc.runs) + Cardinality({ i \in 1..Len(sc.u2c) : sc.u2c[i].type = "start-generate" })

\* startGeneration: the click on Generate with languages and an API key.
ScStartGeneration(labels) ==
    /\ ~sc.generating
    /\ ScStarts < MaxScRuns
    /\ sc' = IF sc.scanResult = 0 \/ UnitCount(sc.scanResult) = 0
             THEN [sc EXCEPT !.uiError = TRUE]
             ELSE ScPost([sc EXCEPT !.generating = TRUE],
                         <<[ScMsg("start-generate") EXCEPT !.labels = labels]>>)
    /\ UNCHANGED <<uiVars, ctlVars, u2c, c2u, tb, rw, doc, pl, qa, ur, fq>>

\* UI, case 'request-translation': processTranslation calls translateBatch
\* unless generating is false (the queue and its concurrency limit are not
\* part of sc).
ScUIRequestTranslation ==
    /\ ScUIReceives("request-translation")
    /\ sc' = IF ~sc.generating THEN ScTake(sc)
             ELSE [ScTake(sc) EXCEPT !.tasks = @ \cup {[lang |-> Head(sc.c2u).lang,
                                                        run |-> Head(sc.c2u).run]}]
    /\ UNCHANGED <<uiVars, ctlVars, u2c, c2u, tb, rw, doc, pl, qa, ur, fq>>

\* translateBatch returns translations.
ScTaskDone(t) ==
    /\ t \in sc.tasks
    /\ LET s == [sc EXCEPT !.tasks = @ \ {t}]
       IN sc' = IF ~sc.generating THEN s
                ELSE ScPost(s, <<[ScMsg("translations-ready") EXCEPT !.lang = t.lang]>>)
    /\ UNCHANGED <<uiVars, ctlVars, u2c, c2u, tb, rw, doc, pl, qa, ur, fq>>

\* UI, case 'language-progress': the status list is not part of sc.
ScUILanguageProgress ==
    /\ ScUIReceives("language-progress")
    /\ sc' = ScTake(sc)
    /\ UNCHANGED <<uiVars, ctlVars, u2c, c2u, tb, rw, doc, pl, qa, ur, fq>>

\* UI, case 'all-complete' (which sends a notify) and case 'error'
ScUIStops(type) ==
    /\ ScUIReceives(type)
    /\ sc' = IF type = "error"
             THEN [ScTake(sc) EXCEPT !.generating = FALSE, !.uiError = TRUE]
             ELSE ScPost([ScTake(sc) EXCEPT !.generating = FALSE], <<ScMsg("notify")>>)
    /\ UNCHANGED <<uiVars, ctlVars, u2c, c2u, tb, rw, doc, pl, qa, ur, fq>>

\* The plugin window opens: the UI has sent init.
ScStart ==
    { [ScIdle EXCEPT !.selection = k, !.u2c = <<ScMsg("init")>>,
                     !.cloneMap = [l \in Langs |-> NoClone]] : k \in {0} \cup Nodes }

InitScan ==
    /\ PipelineInit
    /\ tb = TBIdle
    /\ rw = RWIdle
    /\ doc = DocIdle
    /\ pl = PlIdle
    /\ qa = QAIdle
    /\ sc \in ScStart
    /\ ur = URIdle
    /\ fq = FQIdle

NextScan ==
    \/ \E k \in {0} \cup Nodes : SelectionChange(k)
    \/ ScCtlInit
    \/ \E c \in sc.conts : ScCtlResumeInit(c)
    \/ ScCtlScanSelection
    \/ ScCtlStartGenerate
    \/ \E c \in sc.conts : ScCtlResumeStartSaved(c)
    \/ \E c \in sc.conts : ScCtlResumeStartFont(c)
    \/ ScCtlTranslationsReady
    \/ \E c \in sc.conts : ScCtlResumeReady(c)
    \/ ScCtlNotify
    \/ ScUIInitComplete
    \/ ScUIScanResult
    \/ ScUIScanError
    \/ ScUISelectionChanged
    \/ \E labels \in BOOLEAN : ScStartGeneration(labels)
    \/ ScUIRequestTranslation
    \/ \E t \in sc.tasks : ScTaskDone(t)
    \/ ScUILanguageProgress
    \/ ScUIStops("all-complete")
    \/ ScUIStops("error")

SpecScan == InitScan /\ [][NextScan]_vars

\* --------------------------------------------------------------------- C21
\* C21: the baseline is immutable for the run: every clone map built, every
\* request-translation sent and every QA run for a run uses the entries the
\* controller held when the run's start-generate arrived, whatever scans are
\* processed in between.
C21_BaselineOfTheRun ==
    \A u \in sc.log :
        u.what \in {"clone", "request-translation", "qa"} =>
            u.entries = sc.runs[u.run].entries

\* --------------------------------------------------------------------- C25
\* The r-th start-generate arrived with no valid selection or with no
\* translatable unit in the controller's baseline.
ArrivedEmpty(r) == ~sc.runs[r].selected \/ sc.runs[r].entries = 0

\* The handler of the r-th start-generate is suspended at an await.
StartSuspended(r) ==
    \E c \in sc.conts : c.h = "start-generate" /\ c.entry.run = r

\* C25: when start-generate arrives with no valid selection or with zero
\* translatable units, the run never starts: no clone is created and no
\* language-progress or request-translation is emitted for it, and once its
\* handler has returned the error has been sent.
C25_EmptyRunNeverStarts ==
    \A r \in 1..Len(sc.runs) :
        ArrivedEmpty(r) =>
            /\ \A u \in sc.log : u.run = r => u.what = "error"
            /\ ~StartSuspended(r) => [what |-> "error", run |-> r, entries |-> 0] \in sc.log

\* ------------------------------------------- the pipeline with rewrite-shorter
\* The pipeline of Spec together with the rewrite-shorter buttons: ur holds
\* what the UI keeps for them, the qaReport of each langProgressMap entry
\* ("none": the entry has none, "clean": no issue ids, "issues": some),
\* rewritingLangs, and the shortenTranslations calls in flight.  callOpenAI
\* answers every translation request with valid translations here; the user
\* starts MaxRewriteRuns runs and clicks a rewrite button MaxRewriteClicks times.
MaxRewriteRuns == 1
MaxRewriteClicks == 1

MsgApplyRewritesFor(l) == [Msg("apply-rewrites") EXCEPT !.lang = l]

\* startGeneration: langProgressMap.clear() drops the reports; rewritingLangs
\* is left as it is.
PRStartGenerationUpTo(langs, runs) ==
    /\ abortController < runs
    /\ StartGenerationUI(langs)
    /\ ur' = [ur EXCEPT !.reports = [l \in Langs |-> "none"], !.qaAgain = {}]
    /\ UNCHANGED <<tb, rw, doc, pl, qa, sc, fq>>

PRStartGeneration(langs) == PRStartGenerationUpTo(langs, MaxRewriteRuns)

\* UI, case 'language-progress'; issues: whether the qaReport of a done
\* message has issue ids.
PRLanguageProgress(issues) ==
    /\ LanguageProgressUI(ur.rewritingLangs)
    /\ LET p == Head(c2u)
           isRewrite == p.lang \in ur.rewritingLangs
       IN ur' = IF ~generating /\ ~isRewrite THEN ur
                ELSE [ur EXCEPT
                        !.rewritingLangs = IF p.status \in {"done", "error"}
                                           THEN @ \ {p.lang} ELSE @,
                        !.reports[p.lang] =
                            IF p.status = "done" /\ langProgressMap[p.lang] # "none"
                            THEN IF issues THEN "issues" ELSE "clean"
                            ELSE @]
    /\ UNCHANGED <<tb, rw, doc, pl, qa, sc, fq>>

\* triggerRewriteShorter up to `await shortenTranslations(...)`, from the
\* language's button or from "Rewrite all shorter".
PRTriggerRewriteShorter(l) ==
    /\ ur.started < MaxRewriteClicks
    /\ ur.reports[l] = "issues"
    /\ l \in translationsStore
    /\ ur' = [ur EXCEPT !.rewritingLangs = @ \cup {l},
                        !.calls = @ \cup {l},
                        !.started = @ + 1]
    /\ langProgressMap' = UpdateLangProgress(langProgressMap, l, "applying")
    /\ UNCHANGED <<generating, abortController, aborted, translationsStore,
                   translationQueue, activeTranslations, tasks, ctlVars, u2c, c2u,
                   tb, rw, doc, pl, qa, sc, fq>>

\* shortenTranslations fails: notify, status back to done.
PRRewriteFails(l) ==
    /\ l \in ur.calls
    /\ ur' = [ur EXCEPT !.calls = @ \ {l}, !.rewritingLangs = @ \ {l}]
    /\ langProgressMap' = UpdateLangProgress(langProgressMap, l, "done")
    /\ u2c' = Append(u2c, Msg("notify"))
    /\ UNCHANGED <<generating, abortController, aborted, translationsStore,
                   translationQueue, activeTranslations, tasks, ctlVars, c2u,
                   tb, rw, doc, pl, qa, sc, fq>>

\* shortenTranslations returns translations: store them, send apply-rewrites.
PRRewriteReturns(l) ==
    /\ l \in ur.calls
    /\ ur' = [ur EXCEPT !.calls = @ \ {l}]
    /\ translationsStore' = translationsStore \cup {l}
    /\ u2c' = Append(u2c, MsgApplyRewritesFor(l))
    /\ UNCHANGED <<generating, abortController, aborted, langProgressMap,
                   translationQueue, activeTranslations, tasks, ctlVars, c2u,
                   tb, rw, doc, pl, qa, sc, fq>>

\* controller, case 'apply-rewrites', up to `await applyTranslations(...)`.
PRCtlApplyRewrites ==
    /\ CtlReceives("apply-rewrites")
    /\ u2c' = Tail(u2c)
    /\ LET m == Head(u2c) IN
       IF cloneMap[m.lang] = 0 \/ m.lang \notin languageMap
       THEN /\ Send(<<Msg("error")>>)
            /\ UNCHANGED <<conts, progressSent>>
       ELSE /\ SendAndRecord(<<MsgProgress(m.lang, "applying")>>)
            /\ Suspend(Cont("apply-rewrites", "applyTranslations",
                            [m EXCEPT !.run = cloneMap[m.lang]]))
    /\ UNCHANGED <<cancelled, cloneMap, languageMap, qaReports, pendingCount,
                   settings, runLanguages, uiVars, unitVars>>

\* apply-rewrites resumes after applyTranslations: runQA, done.  The new
\* QAReport goes out with the done message; qaReports is not touched.
\* ur.qaAgain: the languages whose clone apply-rewrites has run QA on.
PRCtlResumeApplyRewrites(c) ==
    /\ Resumes(c) /\ c.h = "apply-rewrites"
    /\ conts' = conts (-) SetToBag({c})
    /\ SendAndRecord(<<MsgProgress(c.lang, "done")>>)
    /\ ur' = [ur EXCEPT !.qaAgain = @ \cup {c.lang}]
    /\ UNCHANGED <<cancelled, cloneMap, languageMap, qaReports, pendingCount,
                   settings, runLanguages, uiVars, u2c, tb, rw, doc, pl, qa, sc, fq>>

\* controller, case 'notify'.
PRCtlNotify ==
    /\ CtlReceives("notify")
    /\ u2c' = Tail(u2c)
    /\ UNCHANGED <<ctlVars, uiVars, unitVars, c2u>>

NextPR ==
    \/ \E langs \in LangChoices : PRStartGeneration(langs)
    \/ CancelGeneration
    \/ \E t \in BagToSet(tasks) : TaskResponse(t, "ok")
    \/ UIRequestTranslation
    \/ \E issues \in BOOLEAN : PRLanguageProgress(issues)
    \/ UIAllComplete
    \/ UIError
    \/ UICancelled
    \/ \E l \in Langs : PRTriggerRewriteShorter(l)
    \/ \E l \in Langs : PRRewriteFails(l)
    \/ \E l \in Langs : PRRewriteReturns(l)
    \/ \E selected \in BOOLEAN : CtlStartGenerate(selected)
    \/ \E c \in BagToSet(conts) : CtlResumeStartSaved(c)
    \/ \E c \in BagToSet(conts) : CtlResumeStartFont(c)
    \/ CtlTranslationsReady
    \/ \E c \in BagToSet(conts) : CtlResumeReady(c)
    \/ CtlCancel
    \/ PRCtlApplyRewrites
    \/ \E c \in BagToSet(conts) : PRCtlResumeApplyRewrites(c)
    \/ PRCtlNotify

SpecPR == Init /\ [][NextPR]_vars

\* --------------------------------------------------------------------- C23
\* C23: cancelled is terminal: a language whose status is cancelled keeps
\* that status until a new run is started.
C23_CancelledStep ==
    \A l \in Langs :
        langProgressMap[l] = "cancelled" =>
            langProgressMap'[l] = "cancelled" \/ abortController' # abortController

C23_CancelledIsTerminal == [][C23_CancelledStep]_vars

\* -------------------------------------------- the UI's translation queue
\* enqueueTranslation / processQueue / processTranslation with more languages
\* than the concurrency cap: fq is the UI's part of the pipeline on its own.
\* The controller answers every start-generate with one request-translation
\* per language, in the order of the languages; callOpenAI answers a request
\* with translations or with HTTP 429.
NumQueued == 4            \* languages of a run: 1..NumQueued
MaxFQRuns == 2            \* clicks on Generate

QueuedChoices == { [i \in 1..n |-> i] : n \in {MaxConcurrent, NumQueued} }
QueueResponses == {"ok", "429"}

\* What is kept of a request: its language and the run that asked for it.
Request(m) == <<m.lang, m.run>>

FQState == [q |-> fq.translationQueue, active |-> fq.activeTranslations,
            tasks |-> fq.tasks, prog |-> fq.langProgressMap]

\* The requests of qIn whose processTranslation call starts in the step from
\* tasks old to tasks new, in queue order.
StartedIn(qIn, old, new, sig) ==
    LET starts(m) == CopiesIn(NewTask(m, sig), new) > CopiesIn(NewTask(m, sig), old)
        s == SelectSeq(qIn, starts)
    IN [i \in 1..Len(s) |-> Request(s[i])]

\* processQueue on st, with the requests it starts added to fq.started.
FQProcessQueue(f, st) ==
    LET out == ProcessQueue(st, f.abortController) IN
    [f EXCEPT !.translationQueue = out.q,
              !.activeTranslations = out.active,
              !.tasks = out.tasks,
              !.langProgressMap = out.prog,
              !.started = @ \o StartedIn(st.q, st.tasks, out.tasks, f.abortController)]

\* startGeneration, and the request-translation messages the controller
\* sends for it.
FQStartGeneration(langs) ==
    /\ ~fq.generating
    /\ fq.abortController < MaxFQRuns
    /\ fq' = [fq EXCEPT
                !.generating = TRUE,
                !.abortController = @ + 1,
                !.langProgressMap = [l \in 1..NumQueued |->
                                       IF l \in SeqToSet(langs) THEN "pending" ELSE "none"],
                !.translationQueue = <<>>,
                !.activeTranslations = 0,
                !.c2u = @ \o [i \in 1..Len(langs) |->
                                MsgRequest(langs[i], fq.abortController + 1, <<>>)],
                !.enqueued = <<>>,
                !.started = <<>>]
    /\ UNCHANGED <<uiVars, ctlVars, u2c, c2u, tb, rw, doc, pl, qa, sc, ur>>

\* cancelGeneration.
FQCancelGeneration ==
    /\ fq.generating
    /\ LET inFlight == [t \in { x \in BagToSet(fq.tasks) :
                                  x.sig = fq.abortController /\ x.phase = "net" }
                          |-> fq.tasks[t]]
       IN fq' = [fq EXCEPT
                   !.aborted = @ \cup {fq.abortController},
                   !.translationQueue = <<>>,
                   !.langProgressMap = [l \in 1..NumQueued |->
                                          IF @[l] \in {"none", "done", "error"}
                                          THEN @[l] ELSE "cancelled"],
                   !.generating = FALSE,
                   !.tasks = @ (-) inFlight,
                   !.activeTranslations = @ - BagCardinality(inFlight)]
    /\ UNCHANGED <<uiVars, ctlVars, u2c, c2u, tb, rw, doc, pl, qa, sc, ur>>

\* UI, case 'request-translation': enqueueTranslation, then processQueue.
FQRequestTranslation ==
    /\ fq.c2u # <<>>
    /\ LET m == Head(fq.c2u)
           f == [fq EXCEPT !.c2u = Tail(@)]
       IN fq' = IF ~fq.generating THEN f
                ELSE FQProcessQueue([f EXCEPT !.enqueued = Append(@, Request(m))],
                                    [FQState EXCEPT !.q = Append(@, m)])
    /\ UNCHANGED <<uiVars, ctlVars, u2c, c2u, tb, rw, doc, pl, qa, sc, ur>>

\* processTranslation after `await translateBatch`, then the finally()
\* callback of processQueue.
FQSettle(t) ==
    LET st == [FQState EXCEPT !.active = @ - 1, !.tasks = @ (-) SetToBag({t})] IN
    fq' = IF fq.generating
          THEN FQProcessQueue(fq, st)
          ELSE [fq EXCEPT !.activeTranslations = st.active, !.tasks = st.tasks]

\* translateBatch goes on to iteration t.attempt + 1.
FQContinue(t, lastError) ==
    LET h == TBLoopHead(t.attempt + 1, DefaultMaxRetries, t.sig \in fq.aborted, lastError) IN
    IF h.kind = "call"
    THEN fq' = [fq EXCEPT !.tasks = (@ (-) SetToBag({t}))
                              (+) SetToBag({[t EXCEPT !.attempt = @ + 1, !.phase = "net"]})]
    ELSE FQSettle(t)

\* callOpenAI returns resp to the translateBatch call of task t.
FQTaskResponse(t, resp) ==
    /\ t \in BagToSet(fq.tasks)
    /\ t.phase = "net"
    /\ LET r == TBAfterResponse(t.attempt, resp) IN
       CASE r.kind = "return" -> FQSettle(t)
         [] r.kind = "delay"  ->
              fq' = [fq EXCEPT !.tasks = (@ (-) SetToBag({t}))
                                  (+) SetToBag({[t EXCEPT !.phase = "delay"]})]
         [] OTHER             -> FQContinue(t, r.error)
    /\ UNCHANGED <<uiVars, ctlVars, u2c, c2u, tb, rw, doc, pl, qa, sc, ur>>

\* The back-off timer of task t fires.
FQTaskTimer(t) ==
    /\ t \in BagToSet(fq.tasks)
    /\ t.phase = "delay"
    /\ FQContinue(t, ErrorOf("429"))
    /\ UNCHANGED <<uiVars, ctlVars, u2c, c2u, tb, rw, doc, pl, qa, sc, ur>>

InitFQ ==
    /\ PipelineInit
    /\ tb = TBIdle
    /\ rw = RWIdle
    /\ doc = DocIdle
    /\ pl = PlIdle
    /\ qa = QAIdle
    /\ sc = ScIdle
    /\ ur = URIdle
    /\ fq = FQIdle

NextFQ ==
    \/ \E langs \in QueuedChoices : FQStartGeneration(langs)
    \/ FQCancelGeneration
    \/ FQRequestTranslation
    \/ \E t \in BagToSet(fq.tasks), resp \in QueueResponses : FQTaskResponse(t, resp)
    \/ \E t \in BagToSet(fq.tasks) : FQTaskTimer(t)

SpecFQ == InitFQ /\ [][NextFQ]_vars

\* --------------------------------------------------------------------- C31
IsPrefix(s, t) == Len(s) <= Len(t) /\ s = SubSeq(t, 1, Len(s))

\* C31: within a run, processTranslation starts for the requests in the order
\* in which they were enqueued, and while the run is generating a request
\* waits in the queue only when MaxConcurrent calls are active.
C31_FIFODispatch ==
    /\ IsPrefix(fq.started, fq.enqueued)
    /\ (fq.generating /\ fq.translationQueue # <<>>) =>
          /\ fq.activeTranslations >= MaxConcurrent
          /\ BagCardinality(fq.tasks) >= MaxConcurrent

\* A request that waited in the queue has started, with another still waiting.
C31_Witness ==
    /\ fq.generating
    /\ Len(fq.started) > MaxConcurrent
    /\ fq.translationQueue # <<>>

\* --------------------------------------------------------------------- C32
FontLoadIssues(report) ==
    { j \in 1..Len(report.issues) : report.issues[j].type = "font-load" }

\* C32: when a handler applies translations and runs QA, a unit whose font
\* load fails without a fallback is skipped: its handle is left as it was,
\* its name is in fontErrors and it is not counted in applied; the report has
\* one amber font-load issue per fontErrors entry, and the statuses sent for
\* the language end with done.
C32_FontFailureStep ==
    (Len(qa'.reports) = Len(qa.reports) + 1 /\ qa'.reruns = 0) =>
        LET report == qa'.reports[Len(qa'.reports)] IN
        /\ \A id \in qa'.failed : qa'.received[id] = qa.handles[id]
        /\ SeqToSet(qa'.fontErrors) = { qa.handles[id].id : id \in qa'.failed }
        /\ Len(qa'.fontErrors) = Cardinality(qa'.failed)
        /\ qa'.applied = Cardinality(qa'.translated \ qa'.failed)
        /\ Cardinality(FontLoadIssues(report)) = Len(qa'.fontErrors)
        /\ \A j \in FontLoadIssues(report) : report.issues[j].severity = "amber"
        /\ qa'.sent[Len(qa'.sent)] = "done"

C32_FontFailureSkipsUnit == [][C32_FontFailureStep]_vars

\* A pass in which the font of one unit failed and another unit was written.
C32_Witness ==
    /\ qa.reports # <<>>
    /\ qa.reruns = 0
    /\ qa.failed # {}
    /\ qa.translated \ qa.failed # {}
    /\ qa.applied = 1
    /\ Len(qa.fontErrors) = 1

\* ------------------------------------------- the pipeline under fair scheduling
\* The pipeline of Spec for a user who keeps the selection: start-generate
\* always finds its node.  Every posted message is eventually handled, every
\* suspended handler eventually resumes, and every call of callOpenAI and
\* every back-off timer eventually returns; the user is free to click or not.
LiveResponses == {"ok", "novalid", "429"}

NextLive ==
    \/ \E langs \in LangChoices : StartGeneration(langs)
    \/ CancelGeneration
    \/ \E t \in BagToSet(tasks), resp \in LiveResponses : TaskResponse(t, resp)
    \/ \E t \in BagToSet(tasks) : TaskTimer(t)
    \/ UIRequestTranslation
    \/ UILanguageProgress
    \/ UIAllComplete
    \/ UIError
    \/ UICancelled
    \/ CtlStartGenerate(TRUE)
    \/ \E c \in BagToSet(conts) : CtlResumeStartSaved(c)
    \/ \E c \in BagToSet(conts) : CtlResumeStartFont(c)
    \/ CtlTranslationsReady
    \/ \E c \in BagToSet(conts) : CtlResumeReady(c)
    \/ CtlTranslationError
    \/ CtlCancel

SpecLive == Init /\ [][NextLive]_vars

\* The four schedulers: the UI's message loop, the controller's message
\* loop, the controller's suspended handlers, and the network with its timers.
UIHandles ==
    UIRequestTranslation \/ UILanguageProgress \/ UIAllComplete \/ UIError \/ UICancelled
CtlHandles ==
    CtlStartGenerate(TRUE) \/ CtlTranslationsReady \/ CtlTranslationError \/ CtlCancel
CtlResumes ==
    \E c \in BagToSet(conts) :
        CtlResumeStartSaved(c) \/ CtlResumeStartFont(c) \/ CtlResumeReady(c)
CallsReturn ==
    \E t \in BagToSet(tasks) :
        TaskTimer(t) \/ \E resp \in LiveResponses : TaskResponse(t, resp)

SpecLiveFair ==
    /\ SpecLive
    /\ WF_vars(UIHandles)
    /\ WF_vars(CtlHandles)
    /\ WF_vars(CtlResumes)
    /\ WF_vars(CallsReturn)

\* --------------------------------------------------------------------- C33
\* Run r is over in the UI with every selected language at done or error.
Completed(r) ==
    /\ abortController = r
    /\ ~generating
    /\ \A l \in Langs : langProgressMap[l] \in {"none", "done", "error"}

\* C33: every run the user does not cancel ends with the UI out of the
\* generating state and every selected language at done or error, whatever
\* an earlier cancelled run has left in transit.
C33_RunCompletes ==
    \A r \in Runs : (abortController = r /\ generating) ~> (aborted[r] \/ Completed(r))

\* --------------------------------------------------------------------- C34
\* The controller handles the result or the error of a translateBatch call
\* whose signal was aborted before it returned: a call of a cancelled run.
HandlesLateResult ==
    /\ u2c # <<>>
    /\ u2c' = Tail(u2c)
    /\ Head(u2c).type \in {"translations-ready", "translation-error"}
    /\ Head(u2c).late

\* The translations-ready handlers that resume in this step after a later
\* start-generate has cleared or replaced the clone they were applying to.
ResumesStale ==
    { c \in BagToSet(conts) :
        /\ c.h = "translations-ready"
        /\ conts' = conts (-) SetToBag({c})
        /\ cloneMap[c.lang] # c.run }

\* C34: a translation result or error, or a suspended apply/QA handler, of
\* an earlier run changes neither a status, nor the clone records, nor the
\* report list, nor the pending counter of a later run.
C34_IsolationStep ==
    (HandlesLateResult \/ ResumesStale # {}) =>
        /\ progressSent' = progressSent
        /\ cloneMap' = cloneMap
        /\ qaReports' = qaReports
        /\ pendingCount' = pendingCount

C34_CrossRunIsolation == [][C34_IsolationStep]_vars

\* --------------------------------------------------------------------- C35
\* The languages of the current run the controller has not reported done or
\* error for, once the loops of its start-generate have set the counter.
LoopsDone(langs, sent) == langs # <<>> /\ \A l \in SeqToSet(langs) : sent[l] # "none"
NotFinished(langs, sent) == { l \in SeqToSet(langs) : sent[l] \notin {"done", "error"} }

\* C35: pendingCount is never negative; from the loops of a start-generate
\* on it is the number of that run's languages not yet at done or error; and
\* all-complete is sent only by the step that takes the counter from one to
\* zero, hence once per run.
C35_PendingStep ==
    /\ pendingCount' >= 0
    /\ LoopsDone(runLanguages', progressSent') =>
          pendingCount' = Cardinality(NotFinished(runLanguages', progressSent'))
    /\ \A m \in SentToUI :
          m.type = "all-complete" => pendingCount = 1 /\ pendingCount' = 0

C35_PendingCounter == [][C35_PendingStep]_vars

\* --------------------------------------------------------------------- C36
\* C36: activeTranslations is never negative and is the number of
\* processTranslation calls that have started and not yet settled.
C36_ActiveCounter ==
    /\ activeTranslations >= 0
    /\ activeTranslations = Unsettled

\* --------------------------------------------------------------------- C37
\* C37: the list all-complete carries has exactly one report for every
\* language the controller reported done and none for any other, and each is
\* the most recent QAReport of its language.  The reports of the list are
\* those of translations-ready, so a report is the most recent one of its
\* language unless apply-rewrites has run QA on that clone since.
\* The languages the controller has reported done in the run: those whose
\* last status is done, and those being rewritten (apply-rewrites, which
\* only a language that was done can get, has sent applying for them).
ReachedDone ==
    { l \in SeqToSet(runLanguages') :
        \/ progressSent'[l] = "done"
        \/ \E c \in BagToSet(conts') : c.h = "apply-rewrites" /\ c.lang = l }

C37_ReportsStep ==
    \A m \in SentToUI :
        m.type = "all-complete" =>
            LET of(l) == { i \in 1..Len(m.reports) : m.reports[i].lang = l }
            IN /\ \A l \in Langs : Cardinality(of(l)) = IF l \in ReachedDone THEN 1 ELSE 0
               /\ \A i \in 1..Len(m.reports) : m.reports[i].lang \notin ur'.qaAgain

C37_AllCompleteReports == [][C37_ReportsStep]_vars

\* --------------------------------------------------------------------- C38
\* The start-generate handlers of run r that leave their last await in this step.
LoopsOf(r) ==
    { c \in BagToSet(conts) :
        /\ c.h = "start-generate" /\ c.run = r
        /\ conts' = conts (-) SetToBag({c}) }

\* C38: the clones of a run are created, and its request-translation
\* messages are emitted, by the one step in which its start-generate handler
\* runs its loops, and then for every selected language: cancellation cannot
\* take effect between two languages.
C38_AllOrNothingStep ==
    \A r \in Runs :
        (ClonesCreated(r) # {} \/ RequestsEmitted(r) # {}) =>
            \E c \in LoopsOf(r) :
                /\ ClonesCreated(r) = SeqToSet(c.langs)
                /\ { m.lang : m \in RequestsEmitted(r) } = SeqToSet(c.langs)

C38_AllOrNothing == [][C38_AllOrNothingStep]_vars

\* The controller has handled a cancel and the start-generate of a run of
\* NumLangs languages has finished with every language cloned.
C38_Witness ==
    /\ cancelled
    /\ conts = EmptyBag
    /\ Len(runLanguages) = NumLangs
    /\ \A l \in Langs : cloneMap[l] # 0

\* ------------------------------------- rewrite-shorter under fair scheduling
\* The pipeline with rewrite-shorter for a user who generates one language,
\* up to MaxRuns times, keeping the selection.  Every posted message is
\* eventually handled, every suspended handler eventually resumes and every
\* call of callOpenAI eventually returns; the user is free to click or not.
OneLanguage == <<1>>

NextRL ==
    \/ PRStartGenerationUpTo(OneLanguage, MaxRuns)
    \/ CancelGeneration
    \/ \E t \in BagToSet(tasks) : TaskResponse(t, "ok")
    \/ UIRequestTranslation
    \/ \E issues \in BOOLEAN : PRLanguageProgress(issues)
    \/ UIAllComplete
    \/ UIError
    \/ UICancelled
    \/ \E l \in Langs : PRTriggerRewriteShorter(l)
    \/ \E l \in Langs : PRRewriteFails(l)
    \/ \E l \in Langs : PRRewriteReturns(l)
    \/ CtlStartGenerate(TRUE)
    \/ \E c \in BagToSet(conts) : CtlResumeStartSaved(c)
    \/ \E c \in BagToSet(conts) : CtlResumeStartFont(c)
    \/ CtlTranslationsReady
    \/ \E c \in BagToSet(conts) : CtlResumeReady(c)
    \/ CtlCancel
    \/ PRCtlApplyRewrites
    \/ \E c \in BagToSet(conts) : PRCtlResumeApplyRewrites(c)
    \/ PRCtlNotify

SpecRL == Init /\ [][NextRL]_vars

RLUIHandles ==
    \/ UIRequestTranslation
    \/ \E issues \in BOOLEAN : PRLanguageProgress(issues)
    \/ UIAllComplete \/ UIError \/ UICancelled
RLCtlHandles ==
    CtlStartGenerate(TRUE) \/ CtlTranslationsReady \/ CtlCancel \/ PRCtlApplyRewrites \/ PRCtlNotify
RLCtlResumes ==
    \E c \in BagToSet(conts) :
        \/ CtlResumeStartSaved(c) \/ CtlResumeStartFont(c) \/ CtlResumeReady(c)
        \/ PRCtlResumeApplyRewrites(c)
RLCallsReturn ==
    \/ \E t \in BagToSet(tasks) : TaskResponse(t, "ok")
    \/ \E l \in Langs : PRRewriteFails(l) \/ PRRewriteReturns(l)

SpecRLFair ==
    /\ SpecRL
    /\ WF_vars(RLUIHandles)
    /\ WF_vars(RLCtlHandles)
    /\ WF_vars(RLCtlResumes)
    /\ WF_vars(RLCallsReturn)

\* --------------------------------------------------------------------- C39
\* C39: every rewrite-shorter operation ends: a language in rewritingLangs
\* eventually is out of it with its status at done.
C39_RewriteEnds ==
    \A l \in Langs :
        (l \in ur.rewritingLangs) ~> (l \notin ur.rewritingLangs /\ langProgressMap[l] = "done")

\* --------------------------------------------------------------------- C40
\* C40: a start-generate that is rejected (it answers with an error) leaves
\* the clone records, the language table, the report list, the stored
\* settings and the cancel flag as they were before the message.
C40_RejectedStep ==
    CtlStartGenerate(FALSE) => UNCHANGED <<cloneMap, languageMap, qaReports, settings, cancelled>>

C40_RejectedStartKeepsState == [][C40_RejectedStep]_vars

====
